---------------------------- MODULE Spec2Model ----------------------------
(***************************************************************************)
(* EchoLog: per-participant RTP/Opus recording.                            *)
(*                                                                         *)
(*   JitterBuffer            src/src/utils/rtpUtils.ts  (lines 73-165)     *)
(*   UserStreamHandler       src/src/core/UserStreamHandler.ts             *)
(*   RecordingSessionManager src/src/core/RecordingSessionManager.ts       *)
(*   command handlers        src/src/index.ts                              *)
(*   parseRtpHeader, extractOpusPayload, hrtimeToMs                        *)
(*                           src/src/utils/rtpUtils.ts  (lines 1-59)       *)
(*   AudioMixer              src/src/scripts/mix.ts                        *)
(*   DriftCorrector          src/unnamed/part_002                          *)
(*                                                                         *)
(* Objects are records; a method is an operator from the object (and the   *)
(* clock reading) to the object after the call.  The actions at the end    *)
(* are the callbacks the event loop runs: one action per callback, run to  *)
(* completion, as Node runs it.                                            *)
(***************************************************************************)
EXTENDS Integers, Sequences, FiniteSets, TLC

(***************************************************************************)
(* Program constants.                                                      *)
(***************************************************************************)
TARGET_DELAY_MS == 150
FRAME_DURATION_MS == 20
OPUS_FRAME_DURATION == 20
OPUS_SAMPLE_RATE == 48000
SilenceBytes == 3840
DRIFT_THRESHOLD_MS == 10
CORRECTION_INTERVAL == 30000
MIN_SAMPLES_FOR_ANALYSIS == 100
SeqModulus == 65536    \* sequenceNumber is read with readUInt16BE
NanosPerSec == 1000000000   \* hrtimeToMs: hrtime[0] * 1e9
NanosPerMs == 1000000       \* hrtimeToMs: / 1e6
\* RTP timestamps advance by one frame of samples per packet.
SamplesPerFrame == (OPUS_SAMPLE_RATE * OPUS_FRAME_DURATION) \div 1000

(***************************************************************************)
(* Bounds of the model.                                                    *)
(***************************************************************************)
Epoch == 1000          \* Date.now() when the model starts
TimeStep == 10         \* granularity of the clock, ms (SpecTrack)
MaxTime == 60          \* the clock runs from Epoch to Epoch + MaxTime (SpecTrack)
SeqSpan == 2           \* a stream sends sequence numbers firstSeq .. firstSeq + SeqSpan
MaxPackets == 2        \* chunks delivered to bufferPacket in one run
MaxStopCalls == 2      \* stream end/error events delivered to one handler
MaxSessions == 2       \* RecordingSessionManager objects constructed
MaxStopCmds == 1       \* !stop commands suspended at their first await
MaxHandlers == 2       \* UserStreamHandler objects constructed (Spec)
MaxPairTime == 40      \* the clock runs from Epoch to Epoch + MaxPairTime (SpecPair)
MaxBuffers == 2        \* buffers a stream delivers (SpecRtp)
MaxBufferLen == 24     \* length of a delivered buffer, bytes
MaxCsrc == 1           \* CSRC count in a delivered buffer's first byte
MaxExtWords == 2       \* word count an extension header declares
MaxSessionStarts == 2   \* calls of RecordingSessionManager.start() (SpecSession)
MaxSessionStops == 3    \* calls of RecordingSessionManager.stop() (SpecSession)
MaxLiveTime == 130     \* the clock runs from Epoch to Epoch + MaxLiveTime (SpecLive)
MaxJitterTime == 150   \* the clock runs from Epoch to Epoch + MaxJitterTime (SpecJitter)
MaxJitterPackets == 3  \* bufferPacket calls made of one JitterBuffer (SpecJitter)
MaxJitterFrames == 4   \* flush() is called while fewer frames than this were returned (SpecJitter)
JitterStep == 50       \* granularity of the clock, ms (SpecJitter)
MaxParses == 1         \* buffers handed to parseRtpHeader (SpecParse)
MaxMixCalls == 1       \* mix requests made of one AudioMixer (SpecMix)
MaxDriftCalls == 1     \* calls made of one DriftCorrector (SpecDrift)
MaxDriftTracks == 2    \* tracks handed to analyzeAndCorrectSession
MonitorStep == 15000   \* granularity of the clock, ms (SpecMonitor)
MaxMonitorTime == 60000  \* the clock runs from Epoch to Epoch + MaxMonitorTime (SpecMonitor)

Users == {"u1", "u2"}
Guilds == {"g1"}
SessionIds == 1..MaxSessions
HandlerIds == SessionIds \X Users
NoSession == 0

\* The sequence number of a stream's first packet is arbitrary (RFC 3550);
\* one low and one just below the 16-bit wrap.
FirstSeqs == {4, 65534}
Payloads == {"opus", "corrupt"}
\* Offsets (from firstSeq) of the packets whose payload may be corrupt.
CorruptOffsets == {1}
\* "short": fewer than 12 bytes; "truncExt": extension flag set and fewer
\* than payloadStart + 4 bytes; "ok": neither parseRtpHeader nor
\* extractOpusPayload throws.
Shapes == {"ok", "short", "truncExt"}

VARIABLES
    now,             \* Date.now(), ms
    firstSeq,        \* sequence number the streams of this run start at
    silenceDecodes,  \* whether the codec decodes the 3-byte silence frame
    activeSessions,  \* index.ts: Map guildId -> RecordingSessionManager
    recordPending,   \* handleRecordCommand invocations awaiting entersState
    stopPending,     \* handleStopCommand invocations awaiting their reply
    sessions,        \* the RecordingSessionManager objects
    handlers,        \* the UserStreamHandler objects, by (session, user)
    stopCalls,       \* number of calls of UserStreamHandler.stop, per handler
    rtp,             \* the last buffer a stream delivered and what was extracted
    mixer,           \* AudioMixer: the mix request in hand and its outcome
    drift            \* DriftCorrector: the batch in hand and its outcome

vars == <<now, firstSeq, silenceDecodes, activeSessions, recordPending,
          stopPending, sessions, handlers, stopCalls, rtp, mixer, drift>>

\* What the recording callbacks leave alone.
utilVars == <<rtp, mixer, drift>>

Max(a, b) == IF a >= b THEN a ELSE b

(***************************************************************************)
(* JitterBuffer                                                            *)
(***************************************************************************)
NewJitterBuffer ==
    [packetQueue |-> <<>>, lastFlushTime |-> 0,
     expectedSequence |-> 0, isInitialized |-> FALSE]

RECURSIVE SortBySequence(_)
\* Array.prototype.sort with (a, b) => a.sequence - b.sequence: stable.
InsertBySequence(sorted, p) ==
    LET after == {i \in 1..Len(sorted) : sorted[i].sequence <= p.sequence}
        k == IF after = {} THEN 0 ELSE CHOOSE i \in after : \A j \in after : j <= i
    IN  SubSeq(sorted, 1, k) \o <<p>> \o SubSeq(sorted, k + 1, Len(sorted))

SortBySequence(q) ==
    IF q = <<>> THEN <<>>
    ELSE InsertBySequence(SortBySequence(SubSeq(q, 1, Len(q) - 1)), q[Len(q)])

\* bufferPacket() without `this.packetQueue.sort(...)`.
bufferPacket_unsorted(jb, packet, t) ==
    LET pushed == Append(jb.packetQueue, [packet EXCEPT !.bufferedAt = t])
        seeded == IF ~jb.isInitialized
                  THEN [jb EXCEPT !.expectedSequence = packet.sequence,
                                  !.isInitialized = TRUE]
                  ELSE jb
    IN  [seeded EXCEPT !.packetQueue = pushed]

\* bufferPacket() seeding expectedSequence on every call.
bufferPacket_reseeds(jb, packet, t) ==
    LET pushed == Append(jb.packetQueue, [packet EXCEPT !.bufferedAt = t])
    IN  [jb EXCEPT !.expectedSequence = packet.sequence,
                   !.isInitialized = TRUE,
                   !.packetQueue = SortBySequence(pushed)]

bufferPacket(jb, packet, t) ==
    LET pushed == Append(jb.packetQueue, [packet EXCEPT !.bufferedAt = t])
        seeded == IF ~jb.isInitialized
                  THEN [jb EXCEPT !.expectedSequence = packet.sequence,
                                  !.isInitialized = TRUE]
                  ELSE jb
    IN  [seeded EXCEPT !.packetQueue = SortBySequence(pushed)]

shouldFlush(jb, currentTime) ==
    IF Len(jb.packetQueue) = 0 THEN FALSE
    ELSE LET oldestPacket == jb.packetQueue[1]
             bufferDelay == currentTime - oldestPacket.bufferedAt
         IN  \/ bufferDelay >= TARGET_DELAY_MS
             \/ (currentTime - jb.lastFlushTime) >= FRAME_DURATION_MS

createSilencePacket(sequence, t) ==
    [data |-> "silence", sequence |-> sequence, timestamp |-> 0, bufferedAt |-> t]

\* packetQueue.findIndex(p => p.sequence === expectedSeq); 0 for "not found".
findIndex(q, expectedSeq) ==
    LET hits == {i \in 1..Len(q) : q[i].sequence = expectedSeq}
    IN  IF hits = {} THEN 0 ELSE CHOOSE i \in hits : \A j \in hits : i <= j

RemoveAt(q, i) == SubSeq(q, 1, i - 1) \o SubSeq(q, i + 1, Len(q))

RECURSIVE FlushLoop(_, _, _, _, _, _)
\* for (let i = 0; i < expectedPackets && this.packetQueue.length > 0; i++)
FlushLoop(q, out, i, expectedPackets, expectedSequence, t) ==
    IF i < expectedPackets /\ Len(q) > 0
    THEN LET expectedSeq == expectedSequence + i
             packetIndex == findIndex(q, expectedSeq)
         IN  IF packetIndex > 0
             THEN FlushLoop(RemoveAt(q, packetIndex), Append(out, q[packetIndex]),
                            i + 1, expectedPackets, expectedSequence, t)
             ELSE FlushLoop(q, Append(out, createSilencePacket(expectedSeq, t)),
                            i + 1, expectedPackets, expectedSequence, t)
    ELSE [queue |-> q, out |-> out]

\* The number of slots flush() works through at time t.
ExpectedPackets(jb, t) ==
    LET oldestTime == IF Len(jb.packetQueue) > 0 THEN jb.packetQueue[1].bufferedAt ELSE t
        timeSpan == t - oldestTime
    IN  Max(1, timeSpan \div FRAME_DURATION_MS)

\* flush() with `this.expectedSequence += expectedPackets` left out.
flush_noAdvance(jb, t) ==
    IF ~shouldFlush(jb, t) THEN [jb |-> jb, packets |-> <<>>]
    ELSE LET expectedPackets == ExpectedPackets(jb, t)
             r == FlushLoop(jb.packetQueue, <<>>, 0, expectedPackets,
                            jb.expectedSequence, t)
         IN  [jb |-> [jb EXCEPT !.packetQueue = r.queue, !.lastFlushTime = t],
              packets |-> r.out]

\* flush() advancing expectedSequence one slot further than it worked through.
flush_skipsSlot(jb, t) ==
    IF ~shouldFlush(jb, t) THEN [jb |-> jb, packets |-> <<>>]
    ELSE LET expectedPackets == ExpectedPackets(jb, t)
             r == FlushLoop(jb.packetQueue, <<>>, 0, expectedPackets,
                            jb.expectedSequence, t)
         IN  [jb |-> [jb EXCEPT !.packetQueue = r.queue,
                                !.lastFlushTime = t,
                                !.expectedSequence = jb.expectedSequence + expectedPackets + 1],
              packets |-> r.out]

\* flush() without the `if (!this.shouldFlush(currentTime)) return []` guard.
flush_unguarded(jb, t) ==
    LET expectedPackets == ExpectedPackets(jb, t)
        r == FlushLoop(jb.packetQueue, <<>>, 0, expectedPackets,
                       jb.expectedSequence, t)
    IN  [jb |-> [jb EXCEPT !.packetQueue = r.queue,
                           !.lastFlushTime = t,
                           !.expectedSequence = jb.expectedSequence + expectedPackets],
         packets |-> r.out]

\* Returns the buffer after the call and the packets handed to the caller.
flush(jb, t) ==
    IF ~shouldFlush(jb, t) THEN [jb |-> jb, packets |-> <<>>]
    ELSE LET expectedPackets == ExpectedPackets(jb, t)
             r == FlushLoop(jb.packetQueue, <<>>, 0, expectedPackets,
                            jb.expectedSequence, t)
         IN  [jb |-> [jb EXCEPT !.packetQueue = r.queue,
                                !.lastFlushTime = t,
                                !.expectedSequence = jb.expectedSequence + expectedPackets],
              packets |-> r.out]

\* clear() without the reset of expectedSequence and isInitialized.
clear_keepsSeed(jb) ==
    [jb EXCEPT !.packetQueue = <<>>,
               !.lastFlushTime = 0]

clear(jb) ==
    [jb EXCEPT !.packetQueue = <<>>,
               !.lastFlushTime = 0,
               !.expectedSequence = 0,
               !.isInitialized = FALSE]

(***************************************************************************)
(* UserStreamHandler                                                       *)
(***************************************************************************)
NoMetadata == [captured |-> FALSE]

\* A handler that has not been constructed.
NoHandler == [exists |-> FALSE]

\* constructor: the PCM file is named after the clock at construction.
NewHandler(userId, t) ==
    [exists |-> TRUE,
     userId |-> userId,
     pcmFilename |-> <<userId, t>>,
     jitterBuffer |-> NewJitterBuffer,
     hasCapturedMetadata |-> FALSE,
     metadata |-> NoMetadata,
     flushInterval |-> TRUE,
     tickDue |-> t + OPUS_FRAME_DURATION,   \* when the interval fires next
     isActive |-> TRUE,
     pcmEndCalls |-> 0,
     pcm |-> <<>>,          \* blocks written to pcmStream, in order
     emitted |-> <<>>,      \* packets flush() has returned, in order
     lastBatch |-> 0,       \* how many packets the last flush() returned
     arrived |-> <<>>]      \* sequence numbers passed to bufferPacket (ascending)

\* The multiset of delivered sequence numbers, kept as an ascending sequence.
InsertAscending(seqs, n) ==
    LET k == Cardinality({i \in 1..Len(seqs) : seqs[i] <= n})
    IN  SubSeq(seqs, 1, k) \o <<n>> \o SubSeq(seqs, k + 1, Len(seqs))

parseThrows(chunk) == chunk.shape = "short"
extractThrows(chunk) == chunk.shape \in {"short", "truncExt"}

captureMetadata(w, chunk, t) ==
    [w EXCEPT !.metadata = [captured |-> TRUE,
                            userId |-> w.userId,
                            startTimeRTP |-> chunk.timestamp,
                            startTimeHR |-> t,
                            filename |-> <<w.userId, t>>]]

\* handlePacket capturing metadata on every packet (no hasCapturedMetadata test).
handlePacket_recapture(w, chunk, t) ==
    IF ~w.isActive THEN w
    ELSE IF parseThrows(chunk) THEN w
    ELSE LET w1 == [captureMetadata(w, chunk, t) EXCEPT !.hasCapturedMetadata = TRUE]
         IN  IF extractThrows(chunk) THEN w1
             ELSE LET jitterPacket == [data |-> chunk.payload,
                                       sequence |-> chunk.sequenceNumber,
                                       timestamp |-> chunk.timestamp,
                                       bufferedAt |-> t]
                  IN  [w1 EXCEPT !.jitterBuffer = bufferPacket(w1.jitterBuffer, jitterPacket, t),
                                 !.arrived = InsertAscending(w1.arrived, chunk.sequenceNumber)]

\* handlePacket without its `if (!this.isActive) return`.
handlePacket_noGuard(w, chunk, t) ==
    IF parseThrows(chunk) THEN w
    ELSE LET w1 == IF ~w.hasCapturedMetadata
                   THEN [captureMetadata(w, chunk, t) EXCEPT !.hasCapturedMetadata = TRUE]
                   ELSE w
         IN  IF extractThrows(chunk) THEN w1
             ELSE LET jitterPacket == [data |-> chunk.payload,
                                       sequence |-> chunk.sequenceNumber,
                                       timestamp |-> chunk.timestamp,
                                       bufferedAt |-> t]
                  IN  [w1 EXCEPT !.jitterBuffer = bufferPacket(w1.jitterBuffer, jitterPacket, t),
                                 !.arrived = InsertAscending(w1.arrived, chunk.sequenceNumber)]

handlePacket(w, chunk, t) ==
    IF ~w.isActive THEN w
    ELSE IF parseThrows(chunk) THEN w
    ELSE LET w1 == IF ~w.hasCapturedMetadata
                   THEN [captureMetadata(w, chunk, t) EXCEPT !.hasCapturedMetadata = TRUE]
                   ELSE w
         IN  IF extractThrows(chunk) THEN w1
             ELSE LET jitterPacket == [data |-> chunk.payload,
                                       sequence |-> chunk.sequenceNumber,
                                       timestamp |-> chunk.timestamp,
                                       bufferedAt |-> t]
                  IN  [w1 EXCEPT !.jitterBuffer = bufferPacket(w1.jitterBuffer, jitterPacket, t),
                                 !.arrived = InsertAscending(w1.arrived, chunk.sequenceNumber)]

\* opusDecoder.decode: TRUE when it returns PCM, FALSE when it throws.
Decodes(data) ==
    CASE data = "opus" -> TRUE
      [] data = "corrupt" -> FALSE
      [] OTHER -> silenceDecodes

DecodedBlock == [zeros |-> FALSE, bytes |-> SilenceBytes]
\* A silence buffer of half a frame.
SilenceBlock_halfFrame == [zeros |-> TRUE, bytes |-> SilenceBytes \div 2]
SilenceBlock == [zeros |-> TRUE, bytes |-> SilenceBytes]

RECURSIVE WriteBlocks(_, _), WriteBlocks_abortOnFailure(_, _)
\* The loop without its try/catch: the first decode failure ends it.
WriteBlocks_abortOnFailure(pcm, packets) ==
    IF packets = <<>> THEN pcm
    ELSE IF ~Decodes(Head(packets).data) THEN pcm
    ELSE WriteBlocks_abortOnFailure(Append(pcm, DecodedBlock), Tail(packets))

\* for (const packet of packets) { try { decode; write } catch { write silence } }
WriteBlocks(pcm, packets) ==
    IF packets = <<>> THEN pcm
    ELSE WriteBlocks(Append(pcm, IF Decodes(Head(packets).data)
                                 THEN DecodedBlock ELSE SilenceBlock),
                     Tail(packets))

\* What the log of emitted frames keeps of a packet.
Frames(packets) ==
    [i \in 1..Len(packets) |-> [sequence |-> packets[i].sequence, data |-> packets[i].data]]

processJitterBuffer(w, t) ==
    IF ~w.isActive THEN w
    ELSE LET r == flush(w.jitterBuffer, t)
         IN  [w EXCEPT !.jitterBuffer = r.jb,
                       !.emitted = w.emitted \o Frames(r.packets),
                       !.lastBatch = Len(r.packets),
                       !.pcm = WriteBlocks(w.pcm, r.packets)]

\* stop() without its `if (!this.isActive) return`.
stop_noGuard(w, t) ==
    LET w1 == [w EXCEPT !.isActive = FALSE, !.flushInterval = FALSE]
        w2 == processJitterBuffer(w1, t)
    IN  [w2 EXCEPT !.pcmEndCalls = w2.pcmEndCalls + 1,
                   !.jitterBuffer = clear(w2.jitterBuffer)]

stop(w, t) ==
    IF ~w.isActive THEN w
    ELSE LET w1 == [w EXCEPT !.isActive = FALSE, !.flushInterval = FALSE]
             w2 == processJitterBuffer(w1, t)
         IN  [w2 EXCEPT !.pcmEndCalls = w2.pcmEndCalls + 1,
                        !.jitterBuffer = clear(w2.jitterBuffer)]

\* Every handler writing through one JitterBuffer object.
WorkerUpdate_sharedBuffer(hs, h, w) ==
    [k \in DOMAIN hs |->
        IF k = h THEN w
        ELSE IF hs[k].exists THEN [hs[k] EXCEPT !.jitterBuffer = w.jitterBuffer]
        ELSE hs[k]]

\* The handlers after a method of handler h ran and left it as w: the
\* jitter buffer, decoder, stream and flags are fields of the instance,
\* each handler's constructor making its own.
WorkerUpdate(hs, h, w) == [hs EXCEPT ![h] = w]

(***************************************************************************)
(* RecordingSessionManager                                                 *)
(***************************************************************************)
NoSessionObject == [created |-> FALSE]

\* constructor followed by start(), as handleRecordCommand calls them.
NewSession(guildId) ==
    [created |-> TRUE,
     guild |-> guildId,
     isRecording |-> TRUE,
     userStreams |-> <<>>,      \* keys of the Map, in insertion order
     destroyCalls |-> 0,        \* calls of connection.destroy()
     filenames |-> <<>>]        \* what stop() resolved to

InUserStreams(sess, userId) == \E i \in 1..Len(sess.userStreams) : sess.userStreams[i] = userId

canStartSpeaking(sess, userId) ==
    /\ sess.isRecording
    /\ userId \in Users                     \* channel.members.get(userId)
    /\ ~InUserStreams(sess, userId)

\* The loop of stop() leaving after its first handler.
stopUserStreams_firstOnly(hs, s, users, filenames, t) ==
    IF users = <<>> THEN [handlers |-> hs, filenames |-> filenames]
    ELSE LET h == <<s, Head(users)>>
             stopped == stop(hs[h], t)
         IN  [handlers |-> [hs EXCEPT ![h] = stopped],
              filenames |-> IF stopped.metadata.captured
                            THEN Append(filenames, stopped.metadata.filename)
                            ELSE filenames]

RECURSIVE stopUserStreams(_, _, _, _, _)
\* for (const [userId, streamHandler] of this.userStreams) { stop; push filename }
stopUserStreams(hs, s, users, filenames, t) ==
    IF users = <<>> THEN [handlers |-> hs, filenames |-> filenames]
    ELSE LET h == <<s, Head(users)>>
             stopped == stop(hs[h], t)
             names == IF stopped.metadata.captured
                      THEN Append(filenames, stopped.metadata.filename)
                      ELSE filenames
         IN  stopUserStreams([hs EXCEPT ![h] = stopped], s, Tail(users), names, t)

\* stop() past its guard: r is what the loop over the handlers left.
sessionStopped(sess, r) ==
    [session |-> [sess EXCEPT !.isRecording = FALSE,
                              !.userStreams = <<>>,
                              !.destroyCalls = sess.destroyCalls + 1,
                              !.filenames = r.filenames],
     handlers |-> r.handlers,
     called |-> sess.userStreams,
     returned |-> r.filenames]

\* stop() without the `if (!this.isRecording)` early return.
sessionStop_always(sess, hs, s, t) ==
    sessionStopped(sess, stopUserStreams(hs, s, sess.userStreams, <<>>, t))

\* RecordingSessionManager.stop(): the session and the handlers after the call.
sessionStop(sess, hs, s, t) ==
    IF ~sess.isRecording
    THEN [session |-> sess, handlers |-> hs, called |-> <<>>, returned |-> <<>>]
    ELSE sessionStopped(sess, stopUserStreams(hs, s, sess.userStreams, <<>>, t))

\* RecordingSessionManager.start()
sessionStart(sess) ==
    IF sess.isRecording THEN sess ELSE [sess EXCEPT !.isRecording = TRUE]

\* handleUserStartSpeaking without the `if (!this.isRecording) return`.
handleUserStartSpeaking_whenStopped(sess, hs, s, userId, t) ==
    IF userId \notin Users THEN [session |-> sess, handlers |-> hs]
    ELSE IF InUserStreams(sess, userId) THEN [session |-> sess, handlers |-> hs]
    ELSE [session |-> [sess EXCEPT !.userStreams = Append(@, userId)],
          handlers |-> [hs EXCEPT ![<<s, userId>>] = NewHandler(userId, t)]]

\* handleUserStartSpeaking(userId): the session and the handlers after the call.
handleUserStartSpeaking(sess, hs, s, userId, t) ==
    IF ~sess.isRecording THEN [session |-> sess, handlers |-> hs]
    ELSE IF userId \notin Users THEN [session |-> sess, handlers |-> hs]
    ELSE IF InUserStreams(sess, userId) THEN [session |-> sess, handlers |-> hs]
    ELSE [session |-> [sess EXCEPT !.userStreams = Append(@, userId)],
          handlers |-> [hs EXCEPT ![<<s, userId>>] = NewHandler(userId, t)]]

\* stop() was called on the handlers of the users in `called`.
CountStopCalls(s, called) ==
    [h \in HandlerIds |->
        IF h[1] = s /\ \E i \in 1..Len(called) : called[i] = h[2]
        THEN stopCalls[h] + 1 ELSE stopCalls[h]]

(***************************************************************************)
(* Inputs                                                                  *)
(***************************************************************************)
StreamSeqs == {(firstSeq + k) % SeqModulus : k \in 0..SeqSpan}

Chunks ==
    {[shape |-> "ok", sequenceNumber |-> q, timestamp |-> q * SamplesPerFrame, payload |-> "opus"] :
        q \in StreamSeqs}
    \cup
    {[shape |-> "ok", sequenceNumber |-> (firstSeq + k) % SeqModulus,
      timestamp |-> ((firstSeq + k) % SeqModulus) * SamplesPerFrame, payload |-> "corrupt"] :
        k \in CorruptOffsets}
    \cup
    {[shape |-> sh, sequenceNumber |-> firstSeq, timestamp |-> firstSeq * SamplesPerFrame,
      payload |-> "opus"] : sh \in Shapes \ {"ok"}}

RECURSIVE SumLen(_)
SumLen(S) ==
    IF S = {} THEN 0
    ELSE LET h == CHOOSE x \in S : TRUE
         IN  (IF handlers[h].exists THEN Len(handlers[h].arrived) ELSE 0) + SumLen(S \ {h})

TotalArrived == SumLen(HandlerIds)

CreatedSessions == {s \in SessionIds : sessions[s].created}

RECURSIVE SumPending(_)
SumPending(G) ==
    IF G = {} THEN 0
    ELSE LET g == CHOOSE x \in G : TRUE IN recordPending[g] + SumPending(G \ {g})

(***************************************************************************)
(* index.ts: commands.  Each await is a point where other callbacks run.   *)
(***************************************************************************)
\* handleRecordCommand up to `await entersState(...)`: the registry check
\* has passed and the command is suspended.
RecordBegin(g) ==
    /\ activeSessions[g] = NoSession
    /\ Cardinality(CreatedSessions) + SumPending(Guilds) < MaxSessions
    /\ recordPending' = [recordPending EXCEPT ![g] = @ + 1]
    /\ UNCHANGED <<utilVars, now, firstSeq, silenceDecodes, activeSessions, stopPending,
                   sessions, handlers, stopCalls>>

\* The connection became ready: construct, start and register the session.
RecordReady(g) ==
    /\ recordPending[g] > 0
    /\ LET s == CHOOSE x \in SessionIds \ CreatedSessions :
                    \A y \in SessionIds \ CreatedSessions : x <= y
       IN  /\ sessions' = [sessions EXCEPT ![s] = NewSession(g)]
           /\ activeSessions' = [activeSessions EXCEPT ![g] = s]
    /\ recordPending' = [recordPending EXCEPT ![g] = @ - 1]
    /\ UNCHANGED <<utilVars, now, firstSeq, silenceDecodes, stopPending, handlers, stopCalls>>

\* entersState rejected (timeout): the catch block replies, nothing is created.
RecordFail(g) ==
    /\ recordPending[g] > 0
    /\ recordPending' = [recordPending EXCEPT ![g] = @ - 1]
    /\ UNCHANGED <<utilVars, now, firstSeq, silenceDecodes, activeSessions, stopPending,
                   sessions, handlers, stopCalls>>

\* handleStopCommand up to `await message.reply('Stopping...')`.
StopBegin(g) ==
    /\ activeSessions[g] # NoSession
    /\ Len(stopPending) < MaxStopCmds
    /\ stopPending' = Append(stopPending, [guild |-> g, session |-> activeSessions[g]])
    /\ UNCHANGED <<utilVars, now, firstSeq, silenceDecodes, activeSessions, recordPending,
                   sessions, handlers, stopCalls>>

\* handleStopCommand resumed: session.stop(), activeSessions.delete(guildId).
StopFinish(i) ==
    /\ i \in 1..Len(stopPending)
    /\ LET c == stopPending[i]
           r == sessionStop(sessions[c.session], handlers, c.session, now)
       IN  /\ sessions' = [sessions EXCEPT ![c.session] = r.session]
           /\ handlers' = r.handlers
           /\ stopCalls' = CountStopCalls(c.session, r.called)
           /\ activeSessions' = [activeSessions EXCEPT ![c.guild] = NoSession]
    /\ stopPending' = RemoveAt(stopPending, i)
    /\ UNCHANGED <<utilVars, now, firstSeq, silenceDecodes, recordPending>>

(***************************************************************************)
(* RecordingSessionManager: event handlers                                 *)
(***************************************************************************)
\* connection 'stateChange' to 'disconnected' -> this.stop()
Disconnect(s) ==
    /\ sessions[s].created
    /\ sessions[s].destroyCalls = 0
    /\ sessions[s].isRecording
    /\ LET r == sessionStop(sessions[s], handlers, s, now)
       IN  /\ sessions' = [sessions EXCEPT ![s] = r.session]
           /\ handlers' = r.handlers
           /\ stopCalls' = CountStopCalls(s, r.called)
    /\ UNCHANGED <<utilVars, now, firstSeq, silenceDecodes, activeSessions, recordPending, stopPending>>

\* receiver.speaking 'start' -> handleUserStartSpeaking(userId)
SpeakingStart(s, u) ==
    /\ sessions[s].created
    /\ canStartSpeaking(sessions[s], u)
    /\ handlers' = [handlers EXCEPT ![<<s, u>>] = NewHandler(u, now)]
    /\ sessions' = [sessions EXCEPT ![s].userStreams = Append(@, u)]
    /\ UNCHANGED <<utilVars, now, firstSeq, silenceDecodes, activeSessions, recordPending,
                   stopPending, stopCalls>>

(***************************************************************************)
(* UserStreamHandler: event handlers                                       *)
(***************************************************************************)
\* receiverStream 'data'
HandlePacket(h, chunk) ==
    /\ handlers[h].exists
    /\ TotalArrived < MaxPackets
    /\ handlers' = WorkerUpdate(handlers, h, handlePacket(handlers[h], chunk, now))
    /\ UNCHANGED <<utilVars, now, firstSeq, silenceDecodes, activeSessions, recordPending,
                   stopPending, sessions, stopCalls>>

\* the setInterval callback, while the interval is not cleared: it runs no
\* earlier than OPUS_FRAME_DURATION after its previous run, possibly later.
Tick(h) ==
    /\ handlers[h].exists
    /\ handlers[h].flushInterval
    /\ now >= handlers[h].tickDue
    /\ handlers' = WorkerUpdate(handlers, h,
                       [processJitterBuffer(handlers[h], now)
                           EXCEPT !.tickDue = now + OPUS_FRAME_DURATION])
    /\ UNCHANGED <<utilVars, now, firstSeq, silenceDecodes, activeSessions, recordPending,
                   stopPending, sessions, stopCalls>>

\* receiverStream 'end' -> handleStreamEnd -> stop()
StreamEnd(h) ==
    /\ handlers[h].exists
    /\ stopCalls[h] < MaxStopCalls
    /\ handlers' = WorkerUpdate(handlers, h, stop(handlers[h], now))
    /\ stopCalls' = [stopCalls EXCEPT ![h] = @ + 1]
    /\ UNCHANGED <<utilVars, now, firstSeq, silenceDecodes, activeSessions, recordPending,
                   stopPending, sessions>>

\* receiverStream 'error' -> handleStreamError -> stop()
StreamError(h) ==
    /\ handlers[h].exists
    /\ stopCalls[h] < MaxStopCalls
    /\ handlers' = WorkerUpdate(handlers, h, stop(handlers[h], now))
    /\ stopCalls' = [stopCalls EXCEPT ![h] = @ + 1]
    /\ UNCHANGED <<utilVars, now, firstSeq, silenceDecodes, activeSessions, recordPending,
                   stopPending, sessions>>

AdvanceTime ==
    /\ now + TimeStep <= Epoch + MaxTime
    /\ now' = now + TimeStep
    /\ UNCHANGED <<utilVars, firstSeq, silenceDecodes, activeSessions, recordPending,
                   stopPending, sessions, handlers, stopCalls>>

(***************************************************************************)
(* rtpUtils.ts: a received buffer is described by what the parser reads    *)
(* of it: its length, the CSRC count and the extension flag of its first   *)
(* byte, the 16-bit word count of its extension header, its sequence       *)
(* number and the kind of bytes after the header.                          *)
(***************************************************************************)
NoBuffer == [count |-> 0]

\* throws: 'Buffer too small for RTP header'
parseRtpHeader(buffer) ==
    IF buffer.length < 12 THEN [throws |-> TRUE]
    ELSE [throws |-> FALSE,
          extension |-> buffer.extension,
          csrcCount |-> buffer.csrcCount,
          sequenceNumber |-> buffer.sequenceNumber,
          timestamp |-> buffer.sequenceNumber * SamplesPerFrame]

\* buffer.slice(payloadStart): empty when payloadStart is at or past the end.
slice(buffer, payloadStart) ==
    [throws |-> FALSE,
     payloadStart |-> payloadStart,
     length |-> Max(0, buffer.length - payloadStart)]

extractOpusPayload(buffer) ==
    LET header == parseRtpHeader(buffer)
    IN  IF header.throws THEN [throws |-> TRUE]
        ELSE LET afterCsrc == IF header.csrcCount > 0
                              THEN 12 + header.csrcCount * 4 ELSE 12
             IN  IF header.extension
                 THEN IF buffer.length < afterCsrc + 4 THEN [throws |-> TRUE]
                      ELSE slice(buffer, afterCsrc + 4 + (buffer.extensionLength * 4))
                 ELSE slice(buffer, afterCsrc)

\* The buffer as handlePacket sees it: which call throws, and the payload.
ChunkOf(buffer) ==
    LET header == parseRtpHeader(buffer)
        opusPayload == extractOpusPayload(buffer)
    IN  IF header.throws
        THEN [shape |-> "short", sequenceNumber |-> 0, timestamp |-> 0, payload |-> "empty"]
        ELSE [shape |-> IF opusPayload.throws THEN "truncExt" ELSE "ok",
              sequenceNumber |-> header.sequenceNumber,
              timestamp |-> header.timestamp,
              payload |-> IF opusPayload.throws \/ opusPayload.length = 0
                          THEN "empty" ELSE buffer.payload]

(***************************************************************************)
(* AudioMixer.  Numbers of milliseconds that may carry a fraction          *)
(* (hrtimeToMs and what is computed from it) are kept as the whole number  *)
(* of nanoseconds they stand for: x ms is the integer x * 1e6.             *)
(***************************************************************************)
\* (hrtime[0] * 1e9 + hrtime[1]) / 1e6, as nanoseconds
hrtimeToMs(hrtime) == hrtime[1] * NanosPerSec + hrtime[2]

\* Math.round of a number of ms given as nanoseconds: floor(x + 0.5), in ms
MathRound(x) == (x + (NanosPerMs \div 2)) \div NanosPerMs

\* The recordings directory, in readdir order.  The metadata of a track is
\* what captureMetadata wrote; a session file is what createSessionMetadata wrote.
DirListing ==
    <<"session_g1_1.json", "u1_1000.json", "u1_2000.json", "u2_1000.json",
      "u3_1000.json", "u4_1000.json", "u5_1000.json", "u6_1000.json">>

DirFiles == {DirListing[i] : i \in 1..Len(DirListing)}
\* Files whose start time a run chooses; the others start at 400 ms.
EarlyFiles == {"u1_1000.json", "u1_2000.json", "u2_1000.json"}
StartTimes == {<<0, 100000000>>, <<0, 250000000>>, <<0, 250500000>>, <<1, 0>>}
LateStart == <<0, 400000000>>

UserOf(file) ==
    CASE file \in {"u1_1000.json", "u1_2000.json"} -> "u1"
      [] file = "u2_1000.json" -> "u2"
      [] file = "u3_1000.json" -> "u3"
      [] OTHER -> "u4"

\* fs.readFile: "ENOENT" for a file that cannot be read, else its text:
\* a track's metadata, a session's info, or JSON cut short.
ReadFile(file, starts) ==
    CASE file = "u6_1000.json" -> [throws |-> TRUE]
      [] file = "u5_1000.json" -> [throws |-> FALSE, text |-> "truncated"]
      [] file = "session_g1_1.json" -> [throws |-> FALSE, text |-> "sessionInfo"]
      [] OTHER -> [throws |-> FALSE, text |-> "track",
                   track |-> [userId |-> UserOf(file),
                              startTimeHR |-> IF file \in EarlyFiles THEN starts[file]
                                              ELSE LateStart,
                              filename |-> <<UserOf(file), file>>,
                              pcmSampleRate |-> OPUS_SAMPLE_RATE,
                              isTrack |-> TRUE]]

\* JSON.parse: throws on text cut short; a session's info parses to an
\* object that has no userId, startTimeHR or filename.
JsonParse(content) ==
    CASE content.text = "truncated" -> [throws |-> TRUE]
      [] content.text = "sessionInfo" -> [throws |-> FALSE, value |-> [isTrack |-> FALSE]]
      [] OTHER -> [throws |-> FALSE, value |-> content.track]

\* The PCM file of u4 is not in the directory.
PcmMissing(metadata) == metadata.userId = "u4"

\* fs.access(pcmPath) rejects for a missing file, and join(dir, undefined)
\* throws for metadata without a filename.
PcmAccessThrows(metadata) == ~metadata.isTrack \/ PcmMissing(metadata)

RECURSIVE LoadTracks(_, _, _)
\* loadSessionTracks: the loop over the files that passed the filter.
LoadTracks(files, starts, tracks) ==
    IF files = <<>> THEN tracks
    ELSE LET content == ReadFile(Head(files), starts)
             parsed == IF content.throws THEN [throws |-> TRUE] ELSE JsonParse(content)
             skip == \/ parsed.throws
                     \/ PcmAccessThrows(parsed.value)
         IN  LoadTracks(Tail(files), starts,
                        IF skip THEN tracks ELSE Append(tracks, parsed.value))

RECURSIVE LoadFiles(_, _, _)
\* mixFiles: the loop over the metadata files it was given.
LoadFiles(files, starts, tracks) ==
    IF files = <<>> THEN tracks
    ELSE LET content == ReadFile(Head(files), starts)
             parsed == IF content.throws THEN [throws |-> TRUE] ELSE JsonParse(content)
         IN  LoadFiles(Tail(files), starts,
                       IF parsed.throws THEN tracks ELSE Append(tracks, parsed.value))

RECURSIVE MinOf(_)
MinOf(S) ==
    LET x == CHOOSE y \in S : TRUE
    IN  IF S = {x} THEN x ELSE LET m == MinOf(S \ {x}) IN IF x <= m THEN x ELSE m

\* Math.min(...tracks.map(track => hrtimeToMs(track.startTimeHR))), as nanoseconds
calculateGlobalStartTime(tracks) ==
    IF Len(tracks) = 0 THEN 0
    ELSE MinOf({hrtimeToMs(tracks[i].startTimeHR) : i \in 1..Len(tracks)})

\* Map.prototype.set
MapSet(map, key, value) ==
    [k \in (DOMAIN map) \cup {key} |-> IF k = key THEN value ELSE map[k]]

RECURSIVE SetDelays(_, _, _)
SetDelays(delays, tracks, globalStartTime) ==
    IF tracks = <<>> THEN delays
    ELSE LET trackStartTime == hrtimeToMs(Head(tracks).startTimeHR)
             delayMs == MathRound(trackStartTime - globalStartTime)
         IN  SetDelays(MapSet(delays, Head(tracks).userId, Max(0, delayMs)),
                       Tail(tracks), globalStartTime)

\* The Map userId -> delay (ms) it returns.
calculateTrackDelays(tracks, globalStartTime) == SetDelays(<<>>, tracks, globalStartTime)

NoCommand == [generated |-> FALSE]

\* The ffmpeg arguments: one input per track, one adelay stage per track,
\* one amix stage over the delayed outputs.
generateMixCommand(tracks, trackDelays) ==
    [generated |-> TRUE,
     inputs |-> [i \in 1..Len(tracks) |-> tracks[i].filename],
     adelay |-> [i \in 1..Len(tracks) |->
                    [input |-> i - 1,
                     delays |-> IF tracks[i].userId \in DOMAIN trackDelays
                                THEN trackDelays[tracks[i].userId] ELSE 0,
                     output |-> i - 1]],
     amix |-> [from |-> [i \in 1..Len(tracks) |-> i - 1],
               inputs |-> Len(tracks),
               duration |-> "longest"]]

\* mixSession / mixFiles from the loaded tracks on: what the request came
\* to.  The hrtimeToMs of a track without startTimeHR throws a TypeError;
\* ffmpeg exits with an error when an input file is missing.
MixTracks(tracks, exitCode) ==
    IF Len(tracks) = 0
    THEN [outcome |-> "NoTracksFound", tracks |-> tracks, globalStartTime |-> 0,
          trackDelays |-> <<>>, command |-> NoCommand, ffmpegRuns |-> 0]
    ELSE IF \E i \in 1..Len(tracks) : ~tracks[i].isTrack
    THEN [outcome |-> "TypeError", tracks |-> tracks, globalStartTime |-> 0,
          trackDelays |-> <<>>, command |-> NoCommand, ffmpegRuns |-> 0]
    ELSE LET globalStartTime == calculateGlobalStartTime(tracks)
             trackDelays == calculateTrackDelays(tracks, globalStartTime)
         IN  [outcome |-> IF exitCode = 0 /\ \A i \in 1..Len(tracks) : ~PcmMissing(tracks[i])
                          THEN "resolved" ELSE "FFmpegFailed",
              tracks |-> tracks,
              globalStartTime |-> globalStartTime,
              trackDelays |-> trackDelays,
              command |-> generateMixCommand(tracks, trackDelays),
              ffmpegRuns |-> 1]

\* The files of a set, in directory order.
Listed(S) == SelectSeq(DirListing, LAMBDA f : f \in S)

mixSession(matching, starts, exitCode) ==
    MixTracks(LoadTracks(Listed(matching), starts, <<>>), exitCode)

mixFiles(metadataFiles, starts, exitCode) ==
    MixTracks(LoadFiles(metadataFiles, starts, <<>>), exitCode)

NoMix == [calls |-> 0]

(***************************************************************************)
(* DriftCorrector.  Milliseconds are kept as nanoseconds, as above; a      *)
(* stretch factor f is kept as the integer f * 1e9.                        *)
(***************************************************************************)
Abs(x) == IF x < 0 THEN -x ELSE x
Min(a, b) == IF a <= b THEN a ELSE b

\* executeFFmpeg resolves on exit code 0 and rejects otherwise.
FFmpegRejects(exitCode) == exitCode # 0

\* correctDrift re-rendering at |driftMs| <= threshold only above it.
correctDrift_aboveOnly(inputFile, driftMs, t, exitCode) ==
    IF Abs(driftMs) <= DRIFT_THRESHOLD_MS * NanosPerMs
    THEN [throws |-> FALSE, path |-> inputFile, ffmpegRuns |-> 0]
    ELSE LET stretchFactor == NanosPerSec - driftMs
             clampedFactor == Max((NanosPerSec \div 100) * 95,
                                  Min((NanosPerSec \div 100) * 105, stretchFactor))
             outputFile == <<"corrected", t>>
         IN  IF FFmpegRejects(exitCode)
             THEN [throws |-> TRUE, ffmpegRuns |-> 1, atempo |-> clampedFactor,
                   input |-> inputFile, output |-> outputFile]
             ELSE [throws |-> FALSE, path |-> outputFile, ffmpegRuns |-> 1,
                   atempo |-> clampedFactor, input |-> inputFile, output |-> outputFile]

\* correctDrift handing the raw stretch factor to ffmpeg.
correctDrift_unclamped(inputFile, driftMs, t, exitCode) ==
    IF Abs(driftMs) < DRIFT_THRESHOLD_MS * NanosPerMs
    THEN [throws |-> FALSE, path |-> inputFile, ffmpegRuns |-> 0]
    ELSE LET stretchFactor == NanosPerSec - driftMs
             outputFile == <<"corrected", t>>
         IN  IF FFmpegRejects(exitCode)
             THEN [throws |-> TRUE, ffmpegRuns |-> 1, atempo |-> stretchFactor,
                   input |-> inputFile, output |-> outputFile]
             ELSE [throws |-> FALSE, path |-> outputFile, ffmpegRuns |-> 1,
                   atempo |-> stretchFactor, input |-> inputFile, output |-> outputFile]

\* t: Date.now() at the call; the result is what the promise settles to
\* and the ffmpeg run it made.
correctDrift(inputFile, driftMs, t, exitCode) ==
    IF Abs(driftMs) < DRIFT_THRESHOLD_MS * NanosPerMs
    THEN [throws |-> FALSE, path |-> inputFile, ffmpegRuns |-> 0]
    ELSE LET stretchFactor == NanosPerSec - driftMs
             clampedFactor == Max((NanosPerSec \div 100) * 95,
                                  Min((NanosPerSec \div 100) * 105, stretchFactor))
             outputFile == <<"corrected", t>>
         IN  IF FFmpegRejects(exitCode)
             THEN [throws |-> TRUE, ffmpegRuns |-> 1, atempo |-> clampedFactor,
                   input |-> inputFile, output |-> outputFile]
             ELSE [throws |-> FALSE, path |-> outputFile, ffmpegRuns |-> 1,
                   atempo |-> clampedFactor, input |-> inputFile, output |-> outputFile]

\* stats: what fs.stat of the PCM file settles to.  confidence is kept as
\* the number it is the hundredth part of, in ms.
estimateDriftFromMetadata(track, stats, t) ==
    IF stats.throws THEN [driftMs |-> 0, confidence |-> 0, samplesAnalyzed |-> 0]
    ELSE LET bytesPerSecond == track.pcmSampleRate * 4
             actualDurationMs == ((stats.size * 1000) \div bytesPerSecond) * NanosPerMs
             trackStartTime == hrtimeToMs(track.startTimeHR)
             expectedDurationMs == t * NanosPerMs - trackStartTime
             driftMs == actualDurationMs - expectedDurationMs
         IN  [driftMs |-> IF Abs(driftMs) > 1000 * NanosPerMs THEN 0 ELSE driftMs,
              confidence |-> Min(100 * NanosPerMs, Abs(driftMs)),
              samplesAnalyzed |-> (actualDurationMs \div NanosPerMs) \div 20]

\* driftInfo.confidence > 0.7
ConfidenceAbove07(driftInfo) == driftInfo.confidence > 70 * NanosPerMs

OriginalPath(track) == <<"recordings", track.filename>>

RECURSIVE AnalyzeLoop(_, _, _, _, _, _)
\* The loop of analyzeAndCorrectSession over tracks[i..]: the Map and the
\* log of what was done for each track.  Each ffmpeg run takes time.
AnalyzeLoop(tracks, i, sizes, exits, t, acc) ==
    IF i > Len(tracks) THEN acc
    ELSE LET track == tracks[i]
             driftInfo == estimateDriftFromMetadata(track, sizes[track.filename], t)
             significant == /\ Abs(driftInfo.driftMs) >= DRIFT_THRESHOLD_MS * NanosPerMs
                            /\ ConfidenceAbove07(driftInfo)
             corrected == correctDrift(OriginalPath(track), driftInfo.driftMs, t, exits[i])
             path == IF significant /\ ~corrected.throws THEN corrected.path
                     ELSE OriginalPath(track)
             entry == [driftInfo |-> driftInfo,
                       ffmpegRuns |-> IF significant THEN corrected.ffmpegRuns ELSE 0,
                       failed |-> significant /\ corrected.throws,
                       path |-> path]
         IN  AnalyzeLoop(tracks, i + 1, sizes, exits,
                         IF significant THEN t + 1 ELSE t,
                         [correctedFiles |-> MapSet(acc.correctedFiles, track.userId, path),
                          log |-> Append(acc.log, entry)])

analyzeAndCorrectSession(tracks, sizes, exits, t) ==
    AnalyzeLoop(tracks, 1, sizes, exits, t, [correctedFiles |-> <<>>, log |-> <<>>])

(***************************************************************************)
(* detectDrift works on JavaScript numbers.  They are kept here as exact   *)
(* fractions n/d in lowest terms with d > 0; 0/0 is NaN and 1/0, -1/0 are  *)
(* the infinities, which is what a division by zero yields.                *)
(***************************************************************************)
RECURSIVE Gcd(_, _)
Gcd(a, b) == IF b = 0 THEN a ELSE Gcd(b, a % b)

Sign(x) == IF x > 0 THEN 1 ELSE IF x < 0 THEN -1 ELSE 0

Num(n, d) ==
    IF d = 0 THEN [n |-> Sign(n), d |-> 0]
    ELSE LET g == Gcd(Abs(n), Abs(d))
         IN  [n |-> Sign(d) * (n \div g), d |-> Abs(d) \div g]

NaN == [n |-> 0, d |-> 0]
IsNaN(a) == a.n = 0 /\ a.d = 0
IsFinite(a) == a.d # 0
Whole(k) == [n |-> k, d |-> 1]

NumAdd(a, b) ==
    IF IsFinite(a) /\ IsFinite(b)
    THEN LET g == Gcd(a.d, b.d)
         IN  Num(a.n * (b.d \div g) + b.n * (a.d \div g), (a.d \div g) * b.d)
    ELSE IF IsNaN(a) \/ IsNaN(b) THEN NaN
    ELSE IF ~IsFinite(a) /\ ~IsFinite(b) /\ a.n # b.n THEN NaN
    ELSE IF IsFinite(a) THEN b ELSE a

NumNeg(a) == [n |-> -a.n, d |-> a.d]
NumSub(a, b) == NumAdd(a, NumNeg(b))

NumMul(a, b) ==
    IF IsFinite(a) /\ IsFinite(b)
    THEN LET g == Gcd(Abs(a.n), b.d)
             h == Gcd(Abs(b.n), a.d)
         IN  Num((a.n \div g) * (b.n \div h), (a.d \div h) * (b.d \div g))
    ELSE [n |-> Sign(a.n) * Sign(b.n), d |-> 0]

NumDiv(a, b) ==
    IF IsFinite(a) /\ IsFinite(b)
    THEN IF b.n = 0 THEN [n |-> Sign(a.n), d |-> 0]
         ELSE NumMul(a, [n |-> Sign(b.n) * b.d, d |-> Abs(b.n)])
    ELSE IF IsNaN(a) \/ IsNaN(b) \/ (~IsFinite(a) /\ ~IsFinite(b)) THEN NaN
    ELSE IF IsFinite(a) THEN Whole(0)
    ELSE [n |-> a.n * (IF b.n < 0 THEN -1 ELSE 1), d |-> 0]

NumAbs(a) == [n |-> Abs(a.n), d |-> a.d]
\* a >= b and a > b; every comparison with NaN is false.
NumGeq(a, b) ==
    /\ ~IsNaN(a) /\ ~IsNaN(b)
    /\ IF IsFinite(a) /\ IsFinite(b) THEN a.n * b.d >= b.n * a.d
       ELSE IF ~IsFinite(a) THEN a.n > 0 \/ (~IsFinite(b) /\ b.n < 0)
       ELSE b.n < 0
NumGt(a, b) == NumGeq(a, b) /\ a # b

RECURSIVE SumRange(_, _, _)
\* The sum of values[lo..hi]; exact addition is associative, so the sum is
\* taken by halves to keep the evaluation shallow.
SumRange(values, lo, hi) ==
    IF lo > hi THEN Whole(0)
    ELSE IF lo = hi THEN values[lo]
    ELSE LET mid == (lo + hi) \div 2
         IN  NumAdd(SumRange(values, lo, mid), SumRange(values, mid + 1, hi))

\* values.reduce((sum, v) => sum + v, 0)
SumOf(values, k) == SumRange(values, 1, k)

calculateLinearRegression(xValues, yValues) ==
    LET n == Len(xValues)
    IN  IF n < 2 THEN [slope |-> Whole(1), intercept |-> Whole(0), r2 |-> Whole(0)]
        ELSE LET sumX == SumOf(xValues, n)
                 sumY == SumOf(yValues, n)
                 sumXY == SumOf([i \in 1..n |-> NumMul(xValues[i], yValues[i])], n)
                 sumXX == SumOf([i \in 1..n |-> NumMul(xValues[i], xValues[i])], n)
                 slope == NumDiv(NumSub(NumMul(Whole(n), sumXY), NumMul(sumX, sumY)),
                                 NumSub(NumMul(Whole(n), sumXX), NumMul(sumX, sumX)))
                 intercept == NumDiv(NumSub(sumY, NumMul(slope, sumX)), Whole(n))
                 meanY == NumDiv(sumY, Whole(n))
                 ssRes == SumOf([i \in 1..n |->
                              LET predicted == NumAdd(NumMul(slope, xValues[i]), intercept)
                                  e == NumSub(yValues[i], predicted)
                              IN  NumMul(e, e)], n)
                 ssTot == SumOf([i \in 1..n |->
                              LET e == NumSub(yValues[i], meanY) IN NumMul(e, e)], n)
                 r2 == IF ssTot = Whole(0) THEN Whole(1)
                       ELSE NumSub(Whole(1), NumDiv(ssRes, ssTot))
             IN  [slope |-> slope, intercept |-> intercept, r2 |-> r2]

\* detectDrift taking a timeline of exactly 100 samples for too short.
detectDrift_atMost(packets) ==
    IF Len(packets) <= MIN_SAMPLES_FOR_ANALYSIS
    THEN [driftMs |-> Whole(0), confidence |-> Whole(0), samplesAnalyzed |-> Len(packets),
          regression |-> FALSE]
    ELSE LET regression == calculateLinearRegression(
                               [i \in 1..Len(packets) |-> Whole(packets[i].arrivalTime)],
                               [i \in 1..Len(packets) |-> Num(packets[i].timestamp, 48)])
             driftRatio == NumSub(regression.slope, Whole(1))
         IN  [driftMs |-> NumMul(driftRatio, Whole(1000)),
              confidence |-> regression.r2,
              samplesAnalyzed |-> Len(packets),
              regression |-> TRUE]

\* packets: timeline.packets.  The field regression records whether
\* calculateLinearRegression was called.
detectDrift(packets) ==
    IF Len(packets) < MIN_SAMPLES_FOR_ANALYSIS
    THEN [driftMs |-> Whole(0), confidence |-> Whole(0), samplesAnalyzed |-> Len(packets),
          regression |-> FALSE]
    ELSE LET regression == calculateLinearRegression(
                               [i \in 1..Len(packets) |-> Whole(packets[i].arrivalTime)],
                               [i \in 1..Len(packets) |-> Num(packets[i].timestamp, 48)])
             driftRatio == NumSub(regression.slope, Whole(1))
         IN  [driftMs |-> NumMul(driftRatio, Whole(1000)),
              confidence |-> regression.r2,
              samplesAnalyzed |-> Len(packets),
              regression |-> TRUE]

NoCallback == [invoked |-> FALSE]

\* monitorDrift: the interval is set; the returned handle clears it.
monitorDrift(timeline, t) ==
    [calls |-> 1,
     method |-> "monitorDrift",
     timeline |-> timeline,
     interval |-> TRUE,
     tickDue |-> t + CORRECTION_INTERVAL,
     cancelled |-> FALSE,        \* the handle has been invoked
     callbacks |-> 0,            \* invocations of the caller's callback
     lastCallback |-> NoCallback]

\* driftInfo.confidence > 0.5
ConfidenceAbove05(driftInfo) == NumGt(driftInfo.confidence, Num(1, 2))

\* The interval callback without the confidence test.
monitorCheck_anyConfidence(m, packets) ==
    LET rearmed == [m EXCEPT !.tickDue = m.tickDue + CORRECTION_INTERVAL]
    IN  IF Len(packets) < MIN_SAMPLES_FOR_ANALYSIS THEN rearmed
        ELSE LET driftInfo == detectDrift(packets)
             IN  IF NumGeq(NumAbs(driftInfo.driftMs), Whole(DRIFT_THRESHOLD_MS))
                 THEN [rearmed EXCEPT !.callbacks = m.callbacks + 1,
                                      !.lastCallback = [invoked |-> TRUE,
                                                        driftInfo |-> driftInfo,
                                                        samples |-> Len(packets),
                                                        afterCancel |-> m.cancelled]]
                 ELSE rearmed

\* The interval callback; packets is timeline.packets when it runs.
monitorCheck(m, packets) ==
    LET rearmed == [m EXCEPT !.tickDue = m.tickDue + CORRECTION_INTERVAL]
    IN  IF Len(packets) < MIN_SAMPLES_FOR_ANALYSIS THEN rearmed
        ELSE LET driftInfo == detectDrift(packets)
             IN  IF /\ NumGeq(NumAbs(driftInfo.driftMs), Whole(DRIFT_THRESHOLD_MS))
                    /\ ConfidenceAbove05(driftInfo)
                 THEN [rearmed EXCEPT !.callbacks = m.callbacks + 1,
                                      !.lastCallback = [invoked |-> TRUE,
                                                        driftInfo |-> driftInfo,
                                                        samples |-> Len(packets),
                                                        afterCancel |-> m.cancelled]]
                 ELSE rearmed

\* The handle returned by monitorDrift: () => clearInterval(interval).
cancelMonitor(m) == [m EXCEPT !.interval = FALSE, !.cancelled = TRUE]

NoBatch == [calls |-> 0]

(***************************************************************************)
(* Spec: the bot from start-up: commands, sessions and the membership of   *)
(* their worker maps.  Each stream delivers its first packet and at most   *)
(* one 'end' before its session stops; the coordination code reads the     *)
(* clock only to name files, and the clock stands at Epoch.  SpecTrack     *)
(* below runs the clock and follows one worker packet by packet.           *)
(***************************************************************************)
Init ==
    /\ now = Epoch
    /\ firstSeq = CHOOSE q \in FirstSeqs : \A r \in FirstSeqs : q <= r
    /\ silenceDecodes = TRUE
    /\ activeSessions = [g \in Guilds |-> NoSession]
    /\ recordPending = [g \in Guilds |-> 0]
    /\ stopPending = <<>>
    /\ sessions = [s \in SessionIds |-> NoSessionObject]
    /\ handlers = [h \in HandlerIds |-> NoHandler]
    /\ stopCalls = [h \in HandlerIds |-> 0]
    /\ rtp = NoBuffer
    /\ mixer = NoMix
    /\ drift = NoBatch

NumHandlers == Cardinality({h \in HandlerIds : handlers[h].exists})

FirstChunk ==
    [shape |-> "ok", sequenceNumber |-> firstSeq,
     timestamp |-> firstSeq * SamplesPerFrame, payload |-> "opus"]

SessionSpeakingStart(s, u) == NumHandlers < MaxHandlers /\ SpeakingStart(s, u)

FirstPacket(h) ==
    /\ handlers[h].exists
    /\ handlers[h].arrived = <<>>
    /\ HandlePacket(h, FirstChunk)

FirstStreamEnd(h) == stopCalls[h] = 0 /\ StreamEnd(h)

Next ==
    \/ \E g \in Guilds : RecordBegin(g)
    \/ \E g \in Guilds : RecordReady(g)
    \/ \E g \in Guilds : RecordFail(g)
    \/ \E g \in Guilds : StopBegin(g)
    \/ \E i \in 1..MaxStopCmds : StopFinish(i)
    \/ \E s \in SessionIds : Disconnect(s)
    \/ \E s \in SessionIds, u \in Users : SessionSpeakingStart(s, u)
    \/ \E h \in HandlerIds : FirstPacket(h)
    \/ \E h \in HandlerIds : FirstStreamEnd(h)

Spec == Init /\ [][Next]_vars

(***************************************************************************)
(* SpecTrack: one track worker of a recording session, from the moment     *)
(* handleUserStartSpeaking constructed it.                                 *)
(***************************************************************************)
TrackHandler == <<1, "u1">>

InitTrack ==
    /\ now = Epoch
    /\ firstSeq \in FirstSeqs
    /\ silenceDecodes \in BOOLEAN
    /\ activeSessions = [g \in Guilds |-> IF g = "g1" THEN 1 ELSE NoSession]
    /\ recordPending = [g \in Guilds |-> 0]
    /\ stopPending = <<>>
    /\ sessions = [s \in SessionIds |->
                      IF s = 1 THEN [NewSession("g1") EXCEPT !.userStreams = <<"u1">>]
                      ELSE NoSessionObject]
    /\ handlers = [h \in HandlerIds |->
                      IF h = TrackHandler THEN NewHandler("u1", Epoch) ELSE NoHandler]
    /\ stopCalls = [h \in HandlerIds |-> 0]
    /\ rtp = NoBuffer
    /\ mixer = NoMix
    /\ drift = NoBatch

\* A stopped worker reads no clock (every method returns at its isActive test).
TrackClock == handlers[TrackHandler].isActive /\ AdvanceTime

NextTrack ==
    \/ \E chunk \in Chunks : HandlePacket(TrackHandler, chunk)
    \/ Tick(TrackHandler)
    \/ StreamEnd(TrackHandler)
    \/ StreamError(TrackHandler)
    \/ TrackClock

SpecTrack == InitTrack /\ [][NextTrack]_vars

(***************************************************************************)
(* SpecPair: two track workers of one recording session, their events      *)
(* interleaved.                                                            *)
(***************************************************************************)
PairHandlers == {<<1, u>> : u \in Users}

InitPair ==
    /\ now = Epoch
    /\ firstSeq \in FirstSeqs
    /\ silenceDecodes = TRUE
    /\ activeSessions = [g \in Guilds |-> IF g = "g1" THEN 1 ELSE NoSession]
    /\ recordPending = [g \in Guilds |-> 0]
    /\ stopPending = <<>>
    /\ sessions = [s \in SessionIds |->
                      IF s = 1 THEN [NewSession("g1") EXCEPT !.userStreams = <<"u1", "u2">>]
                      ELSE NoSessionObject]
    /\ handlers = [h \in HandlerIds |->
                      IF h \in PairHandlers THEN NewHandler(h[2], Epoch) ELSE NoHandler]
    /\ stopCalls = [h \in HandlerIds |-> 0]
    /\ rtp = NoBuffer
    /\ mixer = NoMix
    /\ drift = NoBatch

\* The packets of the two streams: well-formed, decodable.
PairChunks == {c \in Chunks : c.shape = "ok" /\ c.payload = "opus"}

PairClock ==
    /\ now + TimeStep <= Epoch + MaxPairTime
    /\ \E h \in PairHandlers : handlers[h].isActive
    /\ AdvanceTime

NextPair ==
    \/ \E h \in PairHandlers, chunk \in PairChunks : HandlePacket(h, chunk)
    \/ \E h \in PairHandlers : Tick(h)
    \/ \E h \in PairHandlers : FirstStreamEnd(h)
    \/ PairClock

SpecPair == InitPair /\ [][NextPair]_vars

(***************************************************************************)
(* SpecSession: one RecordingSessionManager, constructed and not yet       *)
(* started, whose start(), stop() and speaking events come in any order.   *)
(* The session keeps count of the calls and what its last stop() resolved  *)
(* to.                                                                     *)
(***************************************************************************)
TheSession == CHOOSE s \in SessionIds : \A r \in SessionIds : s <= r

\* Those whose speaking events reach the session; "u0" is not in the channel.
Speakers == Users \cup {"u0"}

ConstructedSession ==
    [created |-> TRUE, guild |-> "g1", isRecording |-> FALSE, userStreams |-> <<>>,
     destroyCalls |-> 0, filenames |-> <<>>,
     startsCalled |-> 0, stopsCalled |-> 0, returned |-> <<>>]

InitSession ==
    /\ now = Epoch
    /\ firstSeq = CHOOSE q \in FirstSeqs : \A r \in FirstSeqs : q <= r
    /\ silenceDecodes = TRUE
    /\ activeSessions = [g \in Guilds |-> NoSession]
    /\ recordPending = [g \in Guilds |-> 0]
    /\ stopPending = <<>>
    /\ sessions = [s \in SessionIds |->
                      IF s = TheSession THEN ConstructedSession ELSE NoSessionObject]
    /\ handlers = [h \in HandlerIds |-> NoHandler]
    /\ stopCalls = [h \in HandlerIds |-> 0]
    /\ rtp = NoBuffer
    /\ mixer = NoMix
    /\ drift = NoBatch

SessionUnchanged ==
    UNCHANGED <<utilVars, now, firstSeq, silenceDecodes, activeSessions, recordPending,
                stopPending>>

SessionStart ==
    /\ sessions[TheSession].startsCalled < MaxSessionStarts
    /\ sessions' = [sessions EXCEPT ![TheSession] =
                        [sessionStart(@) EXCEPT !.startsCalled = @ + 1]]
    /\ UNCHANGED <<handlers, stopCalls>>
    /\ SessionUnchanged

SessionStop ==
    /\ sessions[TheSession].stopsCalled < MaxSessionStops
    /\ LET r == sessionStop(sessions[TheSession], handlers, TheSession, now)
       IN  /\ sessions' = [sessions EXCEPT ![TheSession] =
                               [r.session EXCEPT !.stopsCalled = @ + 1,
                                                 !.returned = r.returned]]
           /\ handlers' = r.handlers
           /\ stopCalls' = CountStopCalls(TheSession, r.called)
    /\ SessionUnchanged

SpeakingEvent(userId) ==
    /\ LET r == handleUserStartSpeaking(sessions[TheSession], handlers, TheSession,
                                        userId, now)
       IN  /\ sessions' = [sessions EXCEPT ![TheSession] = r.session]
           /\ handlers' = r.handlers
    /\ UNCHANGED stopCalls
    /\ SessionUnchanged

NextSession ==
    \/ SessionStart
    \/ SessionStop
    \/ \E userId \in Speakers : SpeakingEvent(userId)
    \/ \E h \in HandlerIds : FirstPacket(h)
    \/ \E h \in HandlerIds : FirstStreamEnd(h)

SpecSession == InitSession /\ [][NextSession]_vars

(***************************************************************************)
(* SpecLive: one worker whose flush interval fires when it is due: the     *)
(* clock does not pass a due tick, every due tick runs and time goes on.   *)
(* Packets stop arriving early enough for the ticks that follow them to    *)
(* fit before the clock's last instant.                                    *)
(***************************************************************************)
InitLive ==
    /\ InitTrack
    /\ firstSeq + SeqSpan < SeqModulus

\* The last instant at which a packet is delivered.
LastArrival == Epoch + MaxLiveTime - (SeqSpan + 1) * (OPUS_FRAME_DURATION + TimeStep)

LiveChunks == {c \in Chunks : c.shape = "ok" /\ c.payload = "opus"}

LivePacket(chunk) ==
    /\ now <= LastArrival
    /\ HandlePacket(TrackHandler, chunk)

\* setInterval(..., OPUS_FRAME_DURATION): the callback runs when its period is up.
LiveClock ==
    /\ handlers[TrackHandler].isActive
    /\ handlers[TrackHandler].flushInterval => now < handlers[TrackHandler].tickDue
    /\ now + TimeStep <= Epoch + MaxLiveTime
    /\ now' = now + TimeStep
    /\ UNCHANGED <<utilVars, firstSeq, silenceDecodes, activeSessions, recordPending,
                   stopPending, sessions, handlers, stopCalls>>

NextLive ==
    \/ \E chunk \in LiveChunks : LivePacket(chunk)
    \/ Tick(TrackHandler)
    \/ FirstStreamEnd(TrackHandler)
    \/ LiveClock

SpecLive ==
    /\ InitLive
    /\ [][NextLive]_vars
    /\ WF_vars(Tick(TrackHandler))
    /\ WF_vars(LiveClock)

(***************************************************************************)
(* SpecJitter: one JitterBuffer object, its public methods called in any   *)
(* order and at any time.  The object is the jitterBuffer field of the     *)
(* worker TrackHandler, whose `arrived` counts the bufferPacket calls.     *)
(***************************************************************************)
JitterPacket(sequence) ==
    [data |-> "opus", sequence |-> sequence,
     timestamp |-> sequence * SamplesPerFrame, bufferedAt |-> now]

JitterUnchanged ==
    UNCHANGED <<utilVars, firstSeq, silenceDecodes, activeSessions, recordPending,
                stopPending, sessions, stopCalls>>

BufferPacket(sequence) ==
    /\ Len(handlers[TrackHandler].arrived) < MaxJitterPackets
    /\ handlers' = [handlers EXCEPT
           ![TrackHandler].jitterBuffer = bufferPacket(@, JitterPacket(sequence), now),
           ![TrackHandler].arrived = InsertAscending(@, sequence)]
    /\ UNCHANGED now
    /\ JitterUnchanged

Flush ==
    /\ Len(handlers[TrackHandler].emitted) < MaxJitterFrames
    /\ LET r == flush(handlers[TrackHandler].jitterBuffer, now)
       IN  handlers' = [handlers EXCEPT
              ![TrackHandler].jitterBuffer = r.jb,
              ![TrackHandler].emitted = @ \o Frames(r.packets),
              ![TrackHandler].lastBatch = Len(r.packets)]
    /\ UNCHANGED now
    /\ JitterUnchanged

Clear ==
    /\ handlers' = [handlers EXCEPT
           ![TrackHandler].jitterBuffer = clear(@)]
    /\ UNCHANGED now
    /\ JitterUnchanged

JitterClock ==
    /\ now + JitterStep <= Epoch + MaxJitterTime
    /\ now' = now + JitterStep
    /\ UNCHANGED handlers
    /\ JitterUnchanged

NextJitter ==
    \/ \E sequence \in StreamSeqs : BufferPacket(sequence)
    \/ Flush
    \/ Clear
    \/ JitterClock

SpecJitter == InitTrack /\ [][NextJitter]_vars

(***************************************************************************)
(* SpecRtp: one track worker receiving buffers of every shape from its     *)
(* stream.                                                                 *)
(***************************************************************************)
BufferLengths == {n \in 8..MaxBufferLen : n % 4 = 0}

\* The extension word count is a field of the buffer only where the buffer
\* holds it; the k-th buffer of the stream carries sequence firstSeq + k.
Buffers(k) ==
    {[length |-> n, csrcCount |-> c, extension |-> e, extensionLength |-> x,
      sequenceNumber |-> (firstSeq + k) % SeqModulus, payload |-> "opus"] :
        n \in BufferLengths, c \in 0..MaxCsrc, e \in BOOLEAN, x \in 0..MaxExtWords}

WellFormedDescription(buffer) ==
    /\ buffer.length < 12 => (buffer.csrcCount = 0 /\ ~buffer.extension)
    /\ (~buffer.extension \/ buffer.length < 12 + buffer.csrcCount * 4 + 4)
           => buffer.extensionLength = 0

\* receiverStream 'data' with the bytes of `buffer`
ReceiveBuffer(h, buffer) ==
    /\ handlers[h].exists
    /\ rtp.count < MaxBuffers
    /\ handlers' = [handlers EXCEPT ![h] = handlePacket(@, ChunkOf(buffer), now)]
    /\ rtp' = [count |-> rtp.count + 1,
               buffer |-> buffer,
               extracted |-> extractOpusPayload(buffer)]
    /\ UNCHANGED <<now, firstSeq, silenceDecodes, activeSessions, recordPending,
                   stopPending, sessions, stopCalls, mixer, drift>>

InitRtp ==
    /\ now = Epoch
    /\ firstSeq = CHOOSE q \in FirstSeqs : \A r \in FirstSeqs : q <= r
    /\ silenceDecodes = TRUE
    /\ activeSessions = [g \in Guilds |-> IF g = "g1" THEN 1 ELSE NoSession]
    /\ recordPending = [g \in Guilds |-> 0]
    /\ stopPending = <<>>
    /\ sessions = [s \in SessionIds |->
                      IF s = 1 THEN [NewSession("g1") EXCEPT !.userStreams = <<"u1">>]
                      ELSE NoSessionObject]
    /\ handlers = [h \in HandlerIds |->
                      IF h = TrackHandler THEN NewHandler("u1", Epoch) ELSE NoHandler]
    /\ stopCalls = [h \in HandlerIds |-> 0]
    /\ rtp = NoBuffer
    /\ mixer = NoMix
    /\ drift = NoBatch

NextRtp ==
    \E buffer \in Buffers(rtp.count) :
        WellFormedDescription(buffer) /\ ReceiveBuffer(TrackHandler, buffer)

SpecRtp == InitRtp /\ [][NextRtp]_vars

(***************************************************************************)
(* SpecParse: parseRtpHeader applied to buffers given byte by byte.  A     *)
(* buffer is a sequence of bytes; a 32-bit field is kept as its two 16-bit *)
(* halves.                                                                 *)
(***************************************************************************)
\* buffer.readUInt16BE(offset), offset counted from 0
readUInt16BE(bytes, offset) == bytes[offset + 1] * 256 + bytes[offset + 2]

\* buffer.readUInt32BE(offset)
readUInt32BE(bytes, offset) ==
    [hi |-> readUInt16BE(bytes, offset), lo |-> readUInt16BE(bytes, offset + 2)]

\* parseRtpHeader reading payloadType with the mask 0b111111.
parseHeaderBytes_sixBitType(bytes) ==
    IF Len(bytes) < 12 THEN [throws |-> TRUE]
    ELSE LET firstByte == bytes[1]
             secondByte == bytes[2]
         IN  [throws |-> FALSE,
              version |-> (firstByte \div 64) % 4,
              padding |-> ((firstByte \div 32) % 2) = 1,
              extension |-> ((firstByte \div 16) % 2) = 1,
              csrcCount |-> firstByte % 16,
              marker |-> ((secondByte \div 128) % 2) = 1,
              payloadType |-> secondByte % 64,
              sequenceNumber |-> readUInt16BE(bytes, 2),
              timestamp |-> readUInt32BE(bytes, 4),
              ssrc |-> readUInt32BE(bytes, 8)]

\* parseRtpHeader on the bytes of the buffer.
parseHeaderBytes(bytes) ==
    IF Len(bytes) < 12 THEN [throws |-> TRUE]
    ELSE LET firstByte == bytes[1]
             secondByte == bytes[2]
         IN  [throws |-> FALSE,
              version |-> (firstByte \div 64) % 4,
              padding |-> ((firstByte \div 32) % 2) = 1,
              extension |-> ((firstByte \div 16) % 2) = 1,
              csrcCount |-> firstByte % 16,
              marker |-> ((secondByte \div 128) % 2) = 1,
              payloadType |-> secondByte % 128,
              sequenceNumber |-> readUInt16BE(bytes, 2),
              timestamp |-> readUInt32BE(bytes, 4),
              ssrc |-> readUInt32BE(bytes, 8)]

FirstBytes == {128, 144, 161, 191, 79, 255}
SecondBytes == {120, 248, 0, 255}
Words == {<<0, 0>>, <<255, 255>>, <<1, 128>>}
\* timestamp and ssrc, four bytes each
LongPairs ==
    {<<<<0, 0, 0, 0>>, <<255, 255, 255, 255>>>>,
     <<<<255, 255, 255, 254>>, <<0, 0, 0, 1>>>>,
     <<<<128, 0, 3, 4>>, <<1, 2, 128, 127>>>>}
ParseLengths == {0, 11, 12, 16}
\* The byte after the header bytes, where a buffer is longer than 12.
FillerByte == 170

ByteBuffers ==
    {LET full == <<b0, b1>> \o w \o l[1] \o l[2]
     IN  [i \in 1..n |-> IF i <= 12 THEN full[i] ELSE FillerByte] :
        b0 \in FirstBytes, b1 \in SecondBytes, w \in Words, l \in LongPairs,
        n \in ParseLengths}

ParseBuffer(bytes) ==
    /\ rtp.count < MaxParses
    /\ rtp' = [count |-> rtp.count + 1,
               bytes |-> bytes,
               header |-> parseHeaderBytes(bytes)]
    /\ UNCHANGED <<now, firstSeq, silenceDecodes, activeSessions, recordPending,
                   stopPending, sessions, handlers, stopCalls, mixer, drift>>

NextParse == \E bytes \in ByteBuffers : ParseBuffer(bytes)

SpecParse == InitRtp /\ [][NextParse]_vars

(***************************************************************************)
(* SpecPayload: extractOpusPayload applied to buffers given byte by byte.  *)
(***************************************************************************)
\* buffer.slice(start): the bytes from offset start to the end, none when
\* start is at or past the end.
sliceBytes(bytes, start) ==
    IF start >= Len(bytes) THEN <<>> ELSE SubSeq(bytes, start + 1, Len(bytes))

\* extractOpusPayload taking extensionLength as a count of bytes.
extractPayloadBytes_unscaled(bytes) ==
    LET header == parseHeaderBytes(bytes)
    IN  IF header.throws THEN [throws |-> TRUE]
        ELSE LET afterCsrc == IF header.csrcCount > 0
                              THEN 12 + header.csrcCount * 4 ELSE 12
             IN  IF header.extension
                 THEN IF Len(bytes) < afterCsrc + 4 THEN [throws |-> TRUE]
                      ELSE LET extensionLength == readUInt16BE(bytes, afterCsrc + 2)
                           IN  [throws |-> FALSE,
                                bytes |-> sliceBytes(bytes, afterCsrc + 4 + extensionLength)]
                 ELSE [throws |-> FALSE, bytes |-> sliceBytes(bytes, afterCsrc)]

\* extractOpusPayload on the bytes of the buffer.
extractPayloadBytes(bytes) ==
    LET header == parseHeaderBytes(bytes)
    IN  IF header.throws THEN [throws |-> TRUE]
        ELSE LET afterCsrc == IF header.csrcCount > 0
                              THEN 12 + header.csrcCount * 4 ELSE 12
             IN  IF header.extension
                 THEN IF Len(bytes) < afterCsrc + 4 THEN [throws |-> TRUE]
                      ELSE LET extensionLength == readUInt16BE(bytes, afterCsrc + 2)
                           IN  [throws |-> FALSE,
                                bytes |-> sliceBytes(bytes, afterCsrc + 4 + (extensionLength * 4))]
                 ELSE [throws |-> FALSE, bytes |-> sliceBytes(bytes, afterCsrc)]

\* Version 2, with and without the extension flag, up to two CSRCs.
PayloadFirstBytes == {128, 129, 130, 144, 145, 146}
PayloadLengths == {11, 12, 14, 16, 19, 20, 24, 28, 32, 36}
\* The word count an extension header declares.
ExtensionWords == {0, 1, 2, 256}

\* A buffer whose byte at offset i >= 2 is i, except for the two bytes that
\* hold the extension's word count, 2 bytes into the extension block.
PayloadBuffer(b0, n, words) ==
    LET ext == 12 + 4 * (b0 % 16)
        flagged == (b0 \div 16) % 2 = 1
    IN  [i \in 1..n |->
            IF i = 1 THEN b0
            ELSE IF flagged /\ i - 1 = ext + 2 THEN words \div 256
            ELSE IF flagged /\ i - 1 = ext + 3 THEN words % 256
            ELSE i - 1]

PayloadBuffers ==
    {PayloadBuffer(b0, n, words) :
        b0 \in PayloadFirstBytes, n \in PayloadLengths, words \in ExtensionWords}

ExtractPayload(bytes) ==
    /\ rtp.count < MaxParses
    /\ rtp' = [count |-> rtp.count + 1,
               bytes |-> bytes,
               payload |-> extractPayloadBytes(bytes)]
    /\ UNCHANGED <<now, firstSeq, silenceDecodes, activeSessions, recordPending,
                   stopPending, sessions, handlers, stopCalls, mixer, drift>>

NextPayload == \E bytes \in PayloadBuffers : ExtractPayload(bytes)

SpecPayload == InitRtp /\ [][NextPayload]_vars

(***************************************************************************)
(* SpecMix: mix requests made of an AudioMixer over a recordings           *)
(* directory.                                                              *)
(***************************************************************************)
\* `npm run mix <session_id>`: `matching` are the files whose names passed
\* the filter of loadSessionTracks (.json, not session_*, guild id inside).
MixSession(matching, exitCode) ==
    /\ mixer.calls < MaxMixCalls
    /\ mixer' = [calls |-> mixer.calls + 1,
                 starts |-> mixer.starts,
                 request |-> "mixSession",
                 files |-> Listed(matching),
                 result |-> mixSession(matching, mixer.starts, exitCode)]
    /\ UNCHANGED <<now, firstSeq, silenceDecodes, activeSessions, recordPending,
                   stopPending, sessions, handlers, stopCalls, rtp, drift>>

\* `npm run mix files <file1> <file2> ...`
MixFiles(metadataFiles, exitCode) ==
    /\ mixer.calls < MaxMixCalls
    /\ mixer' = [calls |-> mixer.calls + 1,
                 starts |-> mixer.starts,
                 request |-> "mixFiles",
                 files |-> metadataFiles,
                 result |-> mixFiles(metadataFiles, mixer.starts, exitCode)]
    /\ UNCHANGED <<now, firstSeq, silenceDecodes, activeSessions, recordPending,
                   stopPending, sessions, handlers, stopCalls, rtp, drift>>

InitMix ==
    /\ now = Epoch
    /\ firstSeq = CHOOSE q \in FirstSeqs : \A r \in FirstSeqs : q <= r
    /\ silenceDecodes = TRUE
    /\ activeSessions = [g \in Guilds |-> NoSession]
    /\ recordPending = [g \in Guilds |-> 0]
    /\ stopPending = <<>>
    /\ sessions = [s \in SessionIds |-> NoSessionObject]
    /\ handlers = [h \in HandlerIds |-> NoHandler]
    /\ stopCalls = [h \in HandlerIds |-> 0]
    /\ rtp = NoBuffer
    /\ \E starts \in [EarlyFiles -> StartTimes] : mixer = [calls |-> 0, starts |-> starts]
    /\ drift = NoBatch

NextMix ==
    \/ \E matching \in SUBSET (DirFiles \ {"session_g1_1.json"}), exitCode \in {0, 1} :
           MixSession(matching, exitCode)
    \/ \E S \in SUBSET DirFiles, exitCode \in {0, 1} : MixFiles(Listed(S), exitCode)

SpecMix == InitMix /\ [][NextMix]_vars

(***************************************************************************)
(* SpecDrift: calls made of a DriftCorrector after a session.              *)
(***************************************************************************)
\* Drifts handed to correctDrift, ms.
DriftValues == {-1000, -200, -51, -50, -11, -10, -9, 0, 9, 10, 11, 40, 50, 51, 200, 1000}

\* The PCM files of the recordings directory, as listed.
PcmListing == <<"u1_1000.pcm", "u1_2000.pcm", "u2_1000.pcm">>
PcmFiles == {PcmListing[i] : i \in DOMAIN PcmListing}

\* The tracks of a session: the second is a later stream of the first
\* one's participant.  All started 110 ms after the process did.
DriftTrack(file) ==
    [userId |-> IF file = "u2_1000.pcm" THEN "u2" ELSE "u1",
     startTimeHR |-> <<0, 110000000>>,
     filename |-> file,
     pcmSampleRate |-> OPUS_SAMPLE_RATE]

\* File sizes: whole milliseconds of PCM whose duration differs from
\* Epoch - 110 ms by the drifts below, or no file.
BytesPerMs == (OPUS_SAMPLE_RATE * 4) \div 1000
NoFile == [throws |-> TRUE, size |-> 0]
SizeFor(d) == [throws |-> FALSE, size |-> BytesPerMs * (Epoch - 110 + d)]

\* What happens to one track: the fs.stat result of its file and the exit
\* code of the ffmpeg run made for it, if one is made.
TrackCases ==
    {[stats |-> SizeFor(d), exitCode |-> 0] : d \in {-80, 10, 70, 71, 1001}}
    \cup {[stats |-> SizeFor(71), exitCode |-> 1], [stats |-> NoFile, exitCode |-> 0]}

\* The track lists of up to MaxDriftTracks files, in listing order.
TrackLists ==
    {[i \in 1..Len(picked) |-> DriftTrack(PcmListing[picked[i]])] :
        picked \in {p \in UNION {[1..n -> DOMAIN PcmListing] : n \in 0..MaxDriftTracks} :
                       \A i, j \in 1..Len(p) : i < j => p[i] < p[j]}}

\* Timelines.  Arrival times are in ms from the first packet's, media
\* timestamps in samples from the first packet's.  A timeline is a shape
\* and a length:
\*   <<"line", k>>: the first half in a burst at 0 ms, the second half in a
\*       burst 100 ms later with media time 100 + k/2 ms, a media clock
\*       k/2 percent fast;
\*   "paced": one packet per ms, media time equal to arrival time;
\*   "noisy": as a line, the later burst half 0 and half 300 ms of media;
\*   "burst": every packet at the same instant, a frame of media apart;
\*   "flat": one packet per ms, all with the same media timestamp.
LineSlants == {-4, -2, 0, 1, 2, 4}
TimelineShapes ==
    {<<"line", k>> : k \in LineSlants}
    \cup {<<"paced", 0>>, <<"noisy", 0>>, <<"burst", 0>>, <<"flat", 0>>}

PacketAt(shape, length, i) ==
    CASE shape[1] = "line" ->
            IF 2 * i <= length THEN [arrivalTime |-> 0, timestamp |-> 0]
            ELSE [arrivalTime |-> 100, timestamp |-> 48 * 100 + 24 * shape[2]]
      [] shape[1] = "paced" -> [arrivalTime |-> i, timestamp |-> 48 * i]
      [] shape[1] = "noisy" ->
            IF 2 * i <= length THEN [arrivalTime |-> 0, timestamp |-> 0]
            ELSE [arrivalTime |-> 100, timestamp |-> IF 4 * i <= 3 * length THEN 0 ELSE 48 * 300]
      [] shape[1] = "burst" -> [arrivalTime |-> 0, timestamp |-> SamplesPerFrame * i]
      [] OTHER -> [arrivalTime |-> i, timestamp |-> 0]

\* timeline.packets
PacketsOf(timeline) ==
    [i \in 1..timeline.length |-> PacketAt(timeline.shape, timeline.length, i)]

SampleCounts ==
    {0, 1, MIN_SAMPLES_FOR_ANALYSIS - 1, MIN_SAMPLES_FOR_ANALYSIS, MIN_SAMPLES_FOR_ANALYSIS + 4}

Timelines == [shape : TimelineShapes, length : SampleCounts]

\* detectDrift applied to each of the timelines.
DetectResults == [timeline \in Timelines |-> detectDrift(PacketsOf(timeline))]

DetectDrift(timeline) ==
    /\ drift.calls < MaxDriftCalls
    /\ drift' = [calls |-> drift.calls + 1,
                 method |-> "detectDrift",
                 timeline |-> timeline,
                 result |-> DetectResults[timeline]]
    /\ UNCHANGED <<now, firstSeq, silenceDecodes, activeSessions, recordPending,
                   stopPending, sessions, handlers, stopCalls, rtp, mixer>>

CorrectDrift(inputFile, driftMs, exitCode) ==
    /\ drift.calls < MaxDriftCalls
    /\ drift' = [calls |-> drift.calls + 1,
                 method |-> "correctDrift",
                 inputFile |-> inputFile,
                 driftMs |-> driftMs,
                 result |-> correctDrift(inputFile, driftMs, now, exitCode)]
    /\ UNCHANGED <<now, firstSeq, silenceDecodes, activeSessions, recordPending,
                   stopPending, sessions, handlers, stopCalls, rtp, mixer>>

AnalyzeAndCorrectSession(tracks, sizes, exits) ==
    /\ drift.calls < MaxDriftCalls
    /\ drift' = [calls |-> drift.calls + 1,
                 method |-> "analyzeAndCorrectSession",
                 tracks |-> tracks,
                 result |-> analyzeAndCorrectSession(tracks, sizes, exits, now)]
    /\ UNCHANGED <<now, firstSeq, silenceDecodes, activeSessions, recordPending,
                   stopPending, sessions, handlers, stopCalls, rtp, mixer>>

InitDrift ==
    /\ now = Epoch
    /\ firstSeq = CHOOSE q \in FirstSeqs : \A r \in FirstSeqs : q <= r
    /\ silenceDecodes = TRUE
    /\ activeSessions = [g \in Guilds |-> NoSession]
    /\ recordPending = [g \in Guilds |-> 0]
    /\ stopPending = <<>>
    /\ sessions = [s \in SessionIds |-> NoSessionObject]
    /\ handlers = [h \in HandlerIds |-> NoHandler]
    /\ stopCalls = [h \in HandlerIds |-> 0]
    /\ rtp = NoBuffer
    /\ mixer = NoMix
    /\ drift = NoBatch

NextDrift ==
    \/ \E timeline \in Timelines : DetectDrift(timeline)
    \/ \E f \in PcmFiles, d \in DriftValues, exitCode \in {0, 1} :
           CorrectDrift(OriginalPath(DriftTrack(f)), d * NanosPerMs, exitCode)
    \/ \E tracks \in TrackLists :
           \E cases \in [1..Len(tracks) -> TrackCases] :
               AnalyzeAndCorrectSession(
                   tracks,
                   [f \in PcmFiles |->
                       IF \E i \in 1..Len(tracks) : tracks[i].filename = f
                       THEN cases[CHOOSE i \in 1..Len(tracks) : tracks[i].filename = f].stats
                       ELSE NoFile],
                   [i \in 1..Len(tracks) |-> cases[i].exitCode])

SpecDrift == InitDrift /\ [][NextDrift]_vars

(***************************************************************************)
(* SpecMonitor: one monitorDrift call, the caller's timeline growing, the  *)
(* interval firing and the handle being invoked.                           *)
(***************************************************************************)
MonitoredTimelines == {tl \in Timelines : tl.length >= MIN_SAMPLES_FOR_ANALYSIS - 1}

MonitorUnchanged ==
    UNCHANGED <<firstSeq, silenceDecodes, activeSessions, recordPending,
                stopPending, sessions, handlers, stopCalls, rtp, mixer>>

MonitorDrift(timeline) ==
    /\ drift = NoBatch
    /\ drift' = monitorDrift(timeline, now)
    /\ UNCHANGED now
    /\ MonitorUnchanged

\* The caller records more packets in the timeline it handed over.
TimelineGrows(timeline) ==
    /\ drift # NoBatch
    /\ timeline # drift.timeline
    /\ timeline.length >= drift.timeline.length
    /\ drift' = [drift EXCEPT !.timeline = timeline]
    /\ UNCHANGED now
    /\ MonitorUnchanged

\* The interval fires.
MonitorTick ==
    /\ drift # NoBatch
    /\ drift.interval
    /\ now >= drift.tickDue
    /\ drift' = monitorCheck(drift, PacketsOf(drift.timeline))
    /\ UNCHANGED now
    /\ MonitorUnchanged

\* The caller invokes the handle.
CancelMonitor ==
    /\ drift # NoBatch
    /\ drift' = cancelMonitor(drift)
    /\ UNCHANGED now
    /\ MonitorUnchanged

MonitorClock ==
    /\ now + MonitorStep <= Epoch + MaxMonitorTime
    /\ now' = now + MonitorStep
    /\ UNCHANGED drift
    /\ MonitorUnchanged

NextMonitor ==
    \/ \E timeline \in MonitoredTimelines : MonitorDrift(timeline)
    \/ \E timeline \in MonitoredTimelines : TimelineGrows(timeline)
    \/ MonitorTick
    \/ CancelMonitor
    \/ MonitorClock

SpecMonitor == InitDrift /\ [][NextMonitor]_vars

(***************************************************************************)
(* Properties                                                              *)
(***************************************************************************)
Workers == {h \in HandlerIds : handlers[h].exists}

RealFrames(em) == SelectSeq(em, LAMBDA f : f.data # "silence")
SequencesOf(em) == [i \in 1..Len(em) |-> em[i].sequence]
Consecutive(seqs) == \A i \in 1..(Len(seqs) - 1) : seqs[i + 1] = seqs[i] + 1

\* C1: when stop() takes a worker from active to stopped, the frames that
\* flush() yields at that moment are handed to the decoder and one block
\* per frame is written to the PCM stream.
C1_StopFlushesBufferedFrames ==
    [][\A h \in HandlerIds :
          (handlers[h].exists /\ handlers[h].isActive /\ ~handlers'[h].isActive) =>
              LET final == flush(handlers[h].jitterBuffer, now).packets
              IN  /\ handlers'[h].emitted = handlers[h].emitted \o Frames(final)
                  /\ Len(handlers'[h].pcm) = Len(handlers[h].pcm) + Len(final)]_vars

\* C2: once packets with consecutive sequence numbers (no duplicates) have
\* been delivered in any order and the buffer has moved past the last of
\* them, the real frames emitted are exactly those packets, in order.
C2_AllPresentEmittedInOrder ==
    \A h \in Workers :
        LET w == handlers[h]
        IN  (/\ w.isActive
             /\ w.arrived # <<>>
             /\ Consecutive(w.arrived)
             /\ w.jitterBuffer.expectedSequence > w.arrived[Len(w.arrived)])
            => SequencesOf(RealFrames(w.emitted)) = w.arrived

\* C3: the frames one jitter buffer emits (real and silence) carry strictly
\* increasing sequence numbers; no sequence number is emitted twice.
C3_EmittedStrictlyIncreasing ==
    \A h \in Workers :
        LET em == handlers[h].emitted
        IN  \A i, j \in 1..Len(em) : i < j => em[i].sequence < em[j].sequence

\* A duplicate was buffered, one copy was emitted and later frames followed.
C3_Witness ==
    \E h \in Workers :
        LET w == handlers[h]
        IN  /\ Len(w.emitted) >= 2
            /\ \E i \in 1..(Len(w.arrived) - 1) :
                   /\ w.arrived[i] = w.arrived[i + 1]
                   /\ \E k \in 1..Len(w.emitted) :
                          w.emitted[k] = [sequence |-> w.arrived[i], data |-> "opus"]

\* C4: between the real frames for a and b, when no packet numbered
\* a+1 .. b-1 was delivered, the emitted frames are exactly the silence
\* placeholders a+1 .. b-1, one each, in order.
C4_GapFilledWithSilence ==
    \A h \in Workers :
        LET w == handlers[h]
            em == w.emitted
        IN  \A i, j \in 1..Len(em) :
                LET a == em[i].sequence
                    b == em[j].sequence
                IN  (/\ i < j
                     /\ em[i].data # "silence"
                     /\ em[j].data # "silence"
                     /\ a < b
                     /\ \A k \in 1..Len(w.arrived) : ~(a < w.arrived[k] /\ w.arrived[k] < b))
                    => /\ j - i = b - a
                       /\ \A d \in 1..(b - a - 1) :
                              em[i + d] = [sequence |-> a + d, data |-> "silence"]

\* C5: every worker in a session's worker map is active.
C5_MapHoldsOnlyActiveWorkers ==
    \A s \in SessionIds, u \in Users :
        (sessions[s].created /\ InUserStreams(sessions[s], u)) => handlers[<<s, u>>].isActive

\* C6: every session that is recording is the one the registry holds for
\* its guild (so at most one session records per guild).
C6_OneRegisteredSessionPerGuild ==
    \A s \in SessionIds :
        (sessions[s].created /\ sessions[s].isRecording)
            => activeSessions[sessions[s].guild] = s

\* C7: a call of stop() on a worker that is already stopped changes nothing
\* of the worker: no flush, no second end() of the PCM stream, no clear.
C7_SecondStopIsNoOp ==
    [][\A h \in HandlerIds :
          (handlers[h].exists /\ ~handlers[h].isActive /\ stopCalls'[h] > stopCalls[h])
              => handlers'[h] = handlers[h]]_vars

\* stop() ran twice on a worker and the PCM stream was ended once.
C7_Witness ==
    \E h \in Workers : stopCalls[h] >= 2 /\ handlers[h].pcmEndCalls = 1

\* C8: once a session has been stopped its worker map is empty and every
\* worker it created is inactive, its interval cleared, its PCM stream ended.
C8_SessionStopStopsAllWorkers ==
    \A s \in SessionIds :
        (sessions[s].created /\ ~sessions[s].isRecording) =>
            /\ sessions[s].userStreams = <<>>
            /\ \A u \in Users :
                   handlers[<<s, u>>].exists =>
                       /\ ~handlers[<<s, u>>].isActive
                       /\ ~handlers[<<s, u>>].flushInterval
                       /\ handlers[<<s, u>>].pcmEndCalls = 1

\* A stopped session with two workers: one had ended before the session
\* stop (two stop calls), the other was stopped by it (one call).
C8_Witness ==
    \E s \in SessionIds :
        /\ sessions[s].created /\ ~sessions[s].isRecording
        /\ \E u, v \in Users :
               /\ handlers[<<s, u>>].exists /\ handlers[<<s, v>>].exists
               /\ stopCalls[<<s, u>>] = 2
               /\ stopCalls[<<s, v>>] = 1

\* C9: the frame emitted after the frame numbered 65535 is numbered 0.
C9_ZeroFollows65535 ==
    \A h \in Workers :
        LET em == handlers[h].emitted
        IN  \A i \in 1..(Len(em) - 1) :
                em[i].sequence = SeqModulus - 1 => em[i + 1].sequence = 0

\* C10: the PCM stream holds one block per emitted frame, in emission
\* order: the decoder's PCM where decode succeeds, 3840 zero bytes where it
\* fails.
C10_OneBlockPerFrame ==
    \A h \in Workers :
        LET w == handlers[h]
        IN  /\ Len(w.pcm) = Len(w.emitted)
            /\ \A i \in 1..Len(w.emitted) :
                   w.pcm[i] = IF Decodes(w.emitted[i].data) THEN DecodedBlock
                              ELSE [zeros |-> TRUE, bytes |-> 3840]

\* One flush returned a frame whose decode failed and then a frame that decoded.
C10_Witness ==
    \E h \in Workers :
        LET w == handlers[h]
            n == Len(w.pcm)
        IN  /\ w.lastBatch >= 2
            /\ n >= 2
            /\ ~Decodes(w.emitted[n - 1].data) /\ w.pcm[n - 1].zeros
            /\ Decodes(w.emitted[n].data) /\ ~w.pcm[n].zeros

RECURSIVE PcmBytes(_)
\* The number of bytes the blocks written to a PCM stream add up to.
PcmBytes(pcm) == IF pcm = <<>> THEN 0 ELSE Head(pcm).bytes + PcmBytes(Tail(pcm))

\* C11: with every successful decode returning one frame of PCM, the number
\* of bytes written to a worker's PCM stream is at all times (after every
\* tick, after stop) a whole multiple of one frame's 3840 bytes.
C11_PcmLengthWholeFrames ==
    \A h \in Workers : PcmBytes(handlers[h].pcm) % 3840 = 0

\* A stopped worker whose stream holds a decoded frame and a silence frame.
C11_Witness ==
    \E h \in Workers :
        LET w == handlers[h]
        IN  /\ ~w.isActive
            /\ w.pcmEndCalls = 1
            /\ \E i, j \in 1..Len(w.pcm) : w.pcm[i].zeros /\ ~w.pcm[j].zeros

\* A buffer whose header or extension fields point past its end.
Malformed(buffer) ==
    LET afterCsrc == 12 + buffer.csrcCount * 4
    IN  \/ buffer.length < 12
        \/ afterCsrc > buffer.length
        \/ /\ buffer.extension
           /\ \/ afterCsrc + 4 > buffer.length
              \/ afterCsrc + 4 + buffer.extensionLength * 4 > buffer.length

\* C12: a malformed buffer delivered to a worker leaves the jitter buffer
\* (queue, expectedSequence, initialization flag) exactly as it was.
C12_MalformedPacketLeavesBufferAlone ==
    [][(rtp'.count > rtp.count /\ Malformed(rtp'.buffer))
          => handlers'[TrackHandler].jitterBuffer = handlers[TrackHandler].jitterBuffer]_vars

\* C13: extractOpusPayload throws for every buffer whose extension flag is
\* set and whose declared extension (4-byte extension header plus word
\* count times 4 bytes) ends past the end of the buffer; it returns no
\* payload for it.
C13_ExtensionPastEndThrows ==
    (/\ rtp.count > 0
     /\ rtp.buffer.length >= 12
     /\ rtp.buffer.extension
     /\ 12 + rtp.buffer.csrcCount * 4 + 4 + rtp.buffer.extensionLength * 4 > rtp.buffer.length)
    => rtp.extracted.throws

\* C14: a worker's metadata is assigned once, by an active worker that has
\* decoded nothing yet, with the clock reading of that moment; once
\* assigned no step changes it; nothing is decoded or written while it is
\* unassigned.
C14_MetadataCapturedOnce ==
    [][\A h \in HandlerIds :
          handlers[h].exists =>
              /\ handlers[h].metadata.captured => handlers'[h].metadata = handlers[h].metadata
              /\ (~handlers[h].metadata.captured /\ handlers'[h].metadata.captured) =>
                     /\ handlers[h].isActive
                     /\ handlers[h].pcm = <<>> /\ handlers[h].emitted = <<>>
                     /\ handlers'[h].metadata.startTimeHR = now
              /\ (handlers'[h].pcm # <<>> \/ handlers'[h].emitted # <<>>)
                     => handlers'[h].metadata.captured]_vars

\* Two packets with different sequence numbers were handled at different
\* times, frames were written, and the worker was stopped.
C14_Witness ==
    \E h \in Workers :
        LET w == handlers[h]
        IN  /\ w.metadata.captured
            /\ Len(w.arrived) = 2 /\ w.arrived[1] # w.arrived[2]
            /\ w.metadata.startTimeHR < now
            /\ w.pcm # <<>>
            /\ ~w.isActive

\* C15: a stopped worker stays stopped and unchanged: no step changes it,
\* and handlePacket (any chunk), processJitterBuffer and stop each return
\* it as it is.
C15_StoppedIsTerminal ==
    [][\A h \in HandlerIds :
          (handlers[h].exists /\ ~handlers[h].isActive) =>
              /\ handlers'[h] = handlers[h]
              /\ \A chunk \in Chunks : handlePacket(handlers[h], chunk, now) = handlers[h]
              /\ processJitterBuffer(handlers[h], now) = handlers[h]
              /\ stop(handlers[h], now) = handlers[h]]_vars

\* Events reached a worker after it had recorded frames and been stopped.
C15_Witness ==
    \E h \in Workers :
        /\ ~handlers[h].isActive
        /\ handlers[h].pcm # <<>>
        /\ handlers[h].metadata.captured
        /\ stopCalls[h] > handlers[h].pcmEndCalls

\* The tracks a mix request loaded and did its arithmetic on.
MixedTracks == IF mixer.calls > 0 /\ mixer.result.command.generated
               THEN mixer.result.tracks ELSE <<>>

\* seconds * 1000 + nanoseconds / 1e6 (ms, as nanoseconds)
StartMs(track) == (track.startTimeHR[1] * 1000) * NanosPerMs + track.startTimeHR[2]

\* max(0, round(start - origin)) in ms
DelayFrom(track, origin) ==
    LET d == StartMs(track) - origin
        rounded == IF d % NanosPerMs >= NanosPerMs \div 2
                   THEN d \div NanosPerMs + 1 ELSE d \div NanosPerMs
    IN  IF rounded < 0 THEN 0 ELSE rounded

\* C16: globalStartTime is the least start time (in ms) of the tracks; the
\* delay the result holds for each track is max(0, round(its start -
\* globalStartTime)), so it is >= 0 and the delay of some track is 0; for
\* no tracks globalStartTime is 0.
C16_DelaysFromEarliestStart ==
    /\ calculateGlobalStartTime(<<>>) = 0
    /\ MixedTracks # <<>> =>
          LET tracks == MixedTracks
              r == mixer.result
              delayOf(i) == r.trackDelays[tracks[i].userId]
          IN  /\ \A i \in 1..Len(tracks) : r.globalStartTime <= StartMs(tracks[i])
              /\ \E i \in 1..Len(tracks) : r.globalStartTime = StartMs(tracks[i])
              /\ \A i \in 1..Len(tracks) :
                     /\ delayOf(i) = DelayFrom(tracks[i], r.globalStartTime)
                     /\ delayOf(i) >= 0
              /\ \E i \in 1..Len(tracks) : delayOf(i) = 0

\* C17: the command generated for N tracks has N inputs and N delay stages,
\* the i-th stage delaying input i by max(0, round(start_i - globalStart)),
\* and one summing stage over the N delayed outputs with inputs = N and
\* duration = longest.
C17_OneDelayStagePerTrack ==
    MixedTracks # <<>> =>
        LET tracks == MixedTracks
            c == mixer.result.command
            N == Len(tracks)
        IN  /\ Len(c.inputs) = N
            /\ Len(c.adelay) = N
            /\ \A i \in 1..N :
                   /\ c.inputs[i] = tracks[i].filename
                   /\ c.adelay[i].input = i - 1
                   /\ c.adelay[i].delays = DelayFrom(tracks[i], mixer.result.globalStartTime)
            /\ c.amix.inputs = N
            /\ c.amix.duration = "longest"
            /\ c.amix.from = [i \in 1..N |-> c.adelay[i].output]

\* Metadata files that can be read and hold a track whose PCM file exists.
ValidTrackFiles == {"u1_1000.json", "u1_2000.json", "u2_1000.json", "u3_1000.json"}
\* Files that cannot be read or do not hold a track's metadata.
InvalidFiles == {"u5_1000.json", "u6_1000.json", "session_g1_1.json"}

\* C18: a request none of whose files is a track fails with the
\* no-tracks error, generates no command and never runs ffmpeg; a request
\* with unreadable or invalid files and at least one valid track skips the
\* former and goes on to mix the valid tracks.
C18_NoTracksFailsInvalidSkipped ==
    mixer.calls > 0 =>
        LET r == mixer.result
            given == {mixer.files[i] : i \in 1..Len(mixer.files)}
        IN  /\ given \subseteq InvalidFiles =>
                   /\ r.outcome = "NoTracksFound"
                   /\ ~r.command.generated
                   /\ r.ffmpegRuns = 0
            /\ (given \subseteq (InvalidFiles \cup ValidTrackFiles) /\ given \cap ValidTrackFiles # {}) =>
                   /\ r.command.generated
                   /\ r.ffmpegRuns = 1
                   /\ r.outcome = "resolved" \/ r.outcome = "FFmpegFailed"
                   /\ Len(r.tracks) = Cardinality(given \cap ValidTrackFiles)


\* C19: analyzeAndCorrectSession returns one entry for every input track
\* and never aborts; a track is re-rendered only when its estimated
\* |drift| >= 10 ms and its confidence exceeds 0.7, and a track that was
\* not re-rendered, or whose correction failed, maps to its own original
\* file path.
C19_OneEntryPerTrack ==
    (drift.calls > 0 /\ drift.method = "analyzeAndCorrectSession") =>
        LET tracks == drift.tracks
            r == drift.result
        IN  /\ Len(r.log) = Len(tracks)
            /\ Cardinality(DOMAIN r.correctedFiles) = Len(tracks)
            /\ \A i \in 1..Len(tracks) :
                   LET e == r.log[i]
                   IN  /\ e.ffmpegRuns > 0 =>
                              /\ Abs(e.driftInfo.driftMs) >= DRIFT_THRESHOLD_MS * NanosPerMs
                              /\ ConfidenceAbove07(e.driftInfo)
                       /\ (e.ffmpegRuns = 0 \/ e.failed) =>
                              r.correctedFiles[tracks[i].userId] = OriginalPath(tracks[i])

\* C20: correctDrift with |driftMs| < 10 returns the input path and runs
\* no re-render; with |driftMs| >= 10 it runs exactly one tempo-adjusted
\* re-render of the input and, when that succeeds, returns the path of the
\* new artifact, which is not the input path.
C20_ThresholdGatesReRender ==
    (drift.calls > 0 /\ drift.method = "correctDrift") =>
        LET r == drift.result
        IN  IF Abs(drift.driftMs) < DRIFT_THRESHOLD_MS * NanosPerMs
            THEN /\ ~r.throws
                 /\ r.path = drift.inputFile
                 /\ r.ffmpegRuns = 0
            ELSE /\ r.ffmpegRuns = 1
                 /\ r.input = drift.inputFile
                 /\ r.atempo >= (NanosPerSec \div 100) * 95
                 /\ r.atempo <= (NanosPerSec \div 100) * 105
                 /\ ~r.throws => (r.path = r.output /\ r.path # drift.inputFile)

\* C20 witness: a drift of exactly 10 ms was re-rendered into a new file.
C20_Witness ==
    /\ drift.calls > 0
    /\ drift.method = "correctDrift"
    /\ Abs(drift.driftMs) = DRIFT_THRESHOLD_MS * NanosPerMs
    /\ ~drift.result.throws
    /\ drift.result.ffmpegRuns = 1
    /\ drift.result.path # drift.inputFile


\* C21: the tempo factor handed to the re-render is
\* max(0.95, min(1.05, 1.0 - driftMs/1000)), in thousandths
\* clamp(1000 - driftMs, 950, 1050), and so always within [0.95, 1.05]; a
\* raw factor of 1.2 becomes 1.05 and a raw factor of 0.80 becomes 0.95.
C21_TempoFactorClamped ==
    (drift.calls > 0 /\ drift.method = "correctDrift" /\ drift.result.ffmpegRuns > 0) =>
        LET raw == 1000 - (drift.driftMs \div NanosPerMs)
            clamped == IF raw < 950 THEN 950 ELSE IF raw > 1050 THEN 1050 ELSE raw
        IN  /\ drift.result.atempo = clamped * NanosPerMs
            /\ raw = 1200 => drift.result.atempo = 1050 * NanosPerMs
            /\ raw = 800 => drift.result.atempo = 950 * NanosPerMs

\* C21 witness: a raw factor of 1.2 was handed to ffmpeg as 1.05.
C21_Witness ==
    /\ drift.calls > 0
    /\ drift.method = "correctDrift"
    /\ drift.driftMs = -200 * NanosPerMs
    /\ drift.result.ffmpegRuns = 1
    /\ drift.result.atempo = 1050 * NanosPerMs


\* C22: detectDrift on fewer than 100 samples returns driftMs 0,
\* confidence 0 and samplesAnalyzed = the number of samples, without an
\* error and without running the regression; on 100 or more it reports
\* samplesAnalyzed = the number of samples and driftMs = (slope - 1) * 1000,
\* which for a line whose media clock is k/2 percent fast is 5k.
C22_InsufficientDataIsZeroDrift ==
    (drift.calls > 0 /\ drift.method = "detectDrift") =>
        LET packets == PacketsOf(drift.timeline)
            r == drift.result
        IN  /\ r.samplesAnalyzed = Len(packets)
            /\ IF Len(packets) < 100
               THEN r.driftMs = Whole(0) /\ r.confidence = Whole(0) /\ ~r.regression
               ELSE /\ r.regression
                    /\ LET slope == calculateLinearRegression(
                                        [i \in 1..Len(packets) |-> Whole(packets[i].arrivalTime)],
                                        [i \in 1..Len(packets) |-> Num(packets[i].timestamp, 48)]).slope
                       IN  r.driftMs = NumMul(NumSub(slope, Whole(1)), Whole(1000))
                    /\ drift.timeline.shape[1] = "line" =>
                           r.driftMs = Whole(5 * drift.timeline.shape[2])

\* C22 witness: a timeline of 99 samples whose media clock is 2 percent
\* fast was reported as zero drift with zero confidence.
C22_Witness ==
    /\ drift.calls > 0
    /\ drift.method = "detectDrift"
    /\ drift.timeline = [shape |-> <<"line", 4>>, length |-> 99]
    /\ drift.result.driftMs = Whole(0)
    /\ drift.result.confidence = Whole(0)
    /\ drift.result.samplesAnalyzed = 99


\* C23: the drift monitor invokes the caller's callback on a periodic check
\* only when the timeline has at least 100 samples, drift >= 10 and
\* confidence > 0.5, and never after the cancellation handle was invoked.
C23_CallbackOnlyOnPositiveDrift ==
    (drift.calls > 0 /\ drift.lastCallback.invoked) =>
        /\ drift.lastCallback.samples >= 100
        /\ NumGeq(drift.lastCallback.driftInfo.driftMs, Whole(10))
        /\ NumGt(drift.lastCallback.driftInfo.confidence, Num(1, 2))
        /\ ~drift.lastCallback.afterCancel

\* C23 (amended): the drift monitor invokes the caller's callback on a
\* periodic check only when the timeline has at least 100 samples, the
\* magnitude of the drift is >= 10 and confidence > 0.5, and never after
\* the cancellation handle was invoked.
C23_CallbackOnlyOnSignificantDrift ==
    (drift.calls > 0 /\ drift.lastCallback.invoked) =>
        /\ drift.lastCallback.samples >= 100
        /\ \/ NumGeq(drift.lastCallback.driftInfo.driftMs, Whole(10))
           \/ NumGeq(Whole(-10), drift.lastCallback.driftInfo.driftMs)
        /\ NumGt(drift.lastCallback.driftInfo.confidence, Num(1, 2))
        /\ ~drift.lastCallback.afterCancel

\* C23 witness: the callback was invoked once for a qualifying timeline,
\* the handle was invoked, and a later check time has passed with the
\* timeline still qualifying and no further invocation.
C23_Witness ==
    /\ drift.calls > 0
    /\ drift.callbacks = 1
    /\ drift.cancelled
    /\ now >= drift.tickDue
    /\ drift.timeline = [shape |-> <<"line", 2>>, length |-> 100]
    /\ drift.lastCallback.driftInfo.driftMs = Whole(10)


\* What C24 names of a worker: its jitter buffer, metadata and active flag.
OwnState(w) ==
    <<w.jitterBuffer.packetQueue, w.jitterBuffer.expectedSequence,
      w.jitterBuffer.lastFlushTime, w.jitterBuffer.isInitialized,
      w.hasCapturedMetadata, w.metadata, w.isActive>>

\* C24: track workers share no mutable buffer state: a packet delivered to,
\* a tick of, or a stop of one participant's worker leaves every other
\* participant's jitter buffer (queue, expectedSequence, lastFlushTime,
\* initialization flag), metadata and active flag unchanged, in every
\* interleaving: each step changes the state of at most one worker.
C24_WorkersShareNoState ==
    [][\A h1, h2 \in PairHandlers :
          (h1 # h2 /\ OwnState(handlers'[h1]) # OwnState(handlers[h1]))
              => OwnState(handlers'[h2]) = OwnState(handlers[h2])]_vars

\* C24 witness: both workers hold a packet of their own, one has flushed
\* and stopped while the other is still active with its packet buffered.
C24_Witness ==
    /\ \A h \in PairHandlers : handlers[h].exists /\ handlers[h].hasCapturedMetadata
    /\ ~handlers[<<1, "u1">>].isActive
    /\ Len(handlers[<<1, "u1">>].emitted) > 0
    /\ handlers[<<1, "u2">>].isActive
    /\ Len(handlers[<<1, "u2">>].jitterBuffer.packetQueue) > 0


\* The twelve bytes of a fixed RTP header with the given fields (RFC 3550).
SerializeHeader(header) ==
    LET bit(b) == IF b THEN 1 ELSE 0
    IN  <<header.version * 64 + bit(header.padding) * 32 + bit(header.extension) * 16
              + header.csrcCount,
          bit(header.marker) * 128 + header.payloadType,
          header.sequenceNumber \div 256, header.sequenceNumber % 256,
          header.timestamp.hi \div 256, header.timestamp.hi % 256,
          header.timestamp.lo \div 256, header.timestamp.lo % 256,
          header.ssrc.hi \div 256, header.ssrc.hi % 256,
          header.ssrc.lo \div 256, header.ssrc.lo % 256>>

\* C25: parse fails for every buffer shorter than 12 bytes; for a buffer of
\* at least 12 bytes every parsed field is within its width (version 2
\* bits, csrcCount 4, payloadType 7, sequenceNumber 16, timestamp and ssrc
\* 32) and re-serializing the parsed header gives the first 12 bytes of
\* the buffer exactly.
C25_ParseRoundTrips ==
    (rtp.count > 0) =>
        IF Len(rtp.bytes) < 12 THEN rtp.header.throws
        ELSE /\ ~rtp.header.throws
             /\ rtp.header.version \in 0..3
             /\ rtp.header.csrcCount \in 0..15
             /\ rtp.header.payloadType \in 0..127
             /\ rtp.header.sequenceNumber \in 0..65535
             /\ rtp.header.timestamp.hi \in 0..65535 /\ rtp.header.timestamp.lo \in 0..65535
             /\ rtp.header.ssrc.hi \in 0..65535 /\ rtp.header.ssrc.lo \in 0..65535
             /\ SerializeHeader(rtp.header) = SubSeq(rtp.bytes, 1, 12)

\* C25 witness: a 16-byte buffer with every flag set, payload type 120 and
\* a timestamp above 2^31 was parsed.
C25_Witness ==
    /\ rtp.count > 0
    /\ Len(rtp.bytes) = 16
    /\ rtp.bytes[1] = 255 /\ rtp.bytes[2] = 248
    /\ ~rtp.header.throws
    /\ rtp.header.version = 3 /\ rtp.header.padding /\ rtp.header.extension
    /\ rtp.header.csrcCount = 15 /\ rtp.header.marker /\ rtp.header.payloadType = 120
    /\ rtp.header.timestamp = [hi |-> 65535, lo |-> 65534]

\* The JitterBuffer object that SpecJitter drives.
TheBuffer == handlers[TrackHandler].jitterBuffer

\* The arrival instant of the packet that has been in the queue longest.
LongestBufferedAt(jb) ==
    LET times == {jb.packetQueue[i].bufferedAt : i \in 1..Len(jb.packetQueue)}
    IN  CHOOSE t \in times : \A u \in times : t <= u

\* The frame the claimed flush() hands out for the slot numbered `sequence`:
\* the buffered packet of that number, or a silence placeholder.
SlotFrame(jb, sequence) ==
    IF \E i \in 1..Len(jb.packetQueue) : jb.packetQueue[i].sequence = sequence
    THEN [sequence |-> sequence, data |-> "opus"]
    ELSE [sequence |-> sequence, data |-> "silence"]

\* C26: whenever shouldFlush holds, flush() returns exactly
\* k = max(1, floor((now - arrival of the oldest buffered packet) / 20))
\* frames, slot i being the buffered packet numbered expectedSequence + i
\* (taken out of the queue) or else a silence placeholder of that number, and
\* expectedSequence grows by the number of frames returned.
C26_FlushEmitsOneFramePerSlot ==
    shouldFlush(TheBuffer, now) =>
        LET r == flush(TheBuffer, now)
            k == Max(1, (now - LongestBufferedAt(TheBuffer)) \div FRAME_DURATION_MS)
        IN  /\ Len(r.packets) = k
            /\ \A i \in 0..(k - 1) :
                   Frames(r.packets)[i + 1]
                       = SlotFrame(TheBuffer, TheBuffer.expectedSequence + i)
            /\ Len(r.jb.packetQueue)
                   = Len(TheBuffer.packetQueue) - Len(RealFrames(Frames(r.packets)))
            /\ r.jb.expectedSequence = TheBuffer.expectedSequence + Len(r.packets)

\* C27: the frames a worker's jitter buffer has emitted over its successive
\* flushes are numbered consecutively: each one greater by exactly one than
\* the frame emitted before it.
C27_EmittedRunIsGapFree ==
    \A h \in Workers :
        \A i \in 1..(Len(handlers[h].emitted) - 1) :
            handlers[h].emitted[i + 1].sequence = handlers[h].emitted[i].sequence + 1

\* C28: shouldFlush(now) is true exactly when the queue is non-empty and
\* either the packet that has been buffered longest is at least 150 ms old or
\* at least 20 ms have passed since the last flush.
C28_ShouldFlushWhenLongestBufferedIsDue ==
    shouldFlush(TheBuffer, now)
        <=> /\ Len(TheBuffer.packetQueue) > 0
            /\ \/ now - LongestBufferedAt(TheBuffer) >= TARGET_DELAY_MS
               \/ now - TheBuffer.lastFlushTime >= FRAME_DURATION_MS

\* C29: a flush() called while shouldFlush is false returns no frame and
\* leaves the queue, expectedSequence, lastFlushTime and the initialization
\* flag as they were.
C29_FlushIsNoOpUnlessDue ==
    [][(Flush /\ ~shouldFlush(TheBuffer, now))
          => /\ handlers'[TrackHandler].jitterBuffer = TheBuffer
             /\ handlers'[TrackHandler].emitted = handlers[TrackHandler].emitted
             /\ handlers'[TrackHandler].lastBatch = 0]_vars

\* Packets are waiting, frames were returned before, and the last flush()
\* came too early: it returned nothing and the buffer does not ask for one.
C29_Witness ==
    /\ Len(TheBuffer.packetQueue) > 0
    /\ ~shouldFlush(TheBuffer, now)
    /\ handlers[TrackHandler].emitted # <<>>
    /\ handlers[TrackHandler].lastBatch = 0

\* A packet numbered `sequence` waits in the active worker's queue and its
\* number is not below expectedSequence.
BufferedInTime(sequence) ==
    LET w == handlers[TrackHandler]
    IN  /\ w.isActive
        /\ sequence >= w.jitterBuffer.expectedSequence
        /\ \E i \in 1..Len(w.jitterBuffer.packetQueue) :
               w.jitterBuffer.packetQueue[i].sequence = sequence

\* How many real frames numbered `sequence` the worker has emitted.
TimesEmitted(sequence) ==
    Cardinality({i \in 1..Len(handlers[TrackHandler].emitted) :
                    handlers[TrackHandler].emitted[i]
                        = [sequence |-> sequence, data |-> "opus"]})

\* C30: while the worker stays active and its ticks keep firing, a packet
\* buffered with a number not below expectedSequence is eventually emitted
\* as a real frame, and no number is emitted as a real frame twice.
C30_BufferedInTimeIsEventuallyEmitted ==
    /\ \A k \in 0..SeqSpan :
           BufferedInTime(firstSeq + k)
               ~> (TimesEmitted(firstSeq + k) = 1 \/ ~handlers[TrackHandler].isActive)
    /\ [](\A k \in 0..SeqSpan : TimesEmitted(firstSeq + k) <= 1)

\* Two packets were delivered with a missing number between them, the later
\* one waited in the queue behind a silence placeholder, and both were
\* emitted as real frames while the worker was still active.
C30_Witness ==
    LET w == handlers[TrackHandler]
    IN  /\ w.isActive
        /\ w.arrived = <<firstSeq, firstSeq + 2>>
        /\ w.emitted = <<[sequence |-> firstSeq, data |-> "opus"],
                         [sequence |-> firstSeq + 1, data |-> "silence"],
                         [sequence |-> firstSeq + 2, data |-> "opus"]>>

\* C31: after every bufferPacket and every flush, each packet in the queue
\* is numbered at or above expectedSequence: a packet that can no longer be
\* emitted is not kept.
C31_QueueHoldsOnlyEmittablePackets ==
    \A i \in 1..Len(TheBuffer.packetQueue) :
        TheBuffer.packetQueue[i].sequence >= TheBuffer.expectedSequence

\* C32: the first bufferPacket after construction or clear() sets the
\* initialization flag and makes expectedSequence that packet's number; a
\* later bufferPacket leaves expectedSequence as it is; flush never lowers it.
C32_FirstPacketSeedsExpectedSequence ==
    [][/\ \A sequence \in StreamSeqs :
             BufferPacket(sequence) =>
                 /\ handlers'[TrackHandler].jitterBuffer.isInitialized
                 /\ handlers'[TrackHandler].jitterBuffer.expectedSequence
                      = IF TheBuffer.isInitialized THEN TheBuffer.expectedSequence
                        ELSE sequence
       /\ Flush => /\ handlers'[TrackHandler].jitterBuffer.expectedSequence
                        >= TheBuffer.expectedSequence
                   /\ handlers'[TrackHandler].jitterBuffer.isInitialized
                        = TheBuffer.isInitialized]_vars

\* No flush has run; the packet that arrived first seeded expectedSequence
\* and a lower-numbered packet buffered after it left it unchanged.
C32_Witness ==
    /\ TheBuffer.isInitialized
    /\ TheBuffer.lastFlushTime = 0
    /\ Len(TheBuffer.packetQueue) = 2
    /\ TheBuffer.packetQueue[1].sequence < TheBuffer.expectedSequence
    /\ TheBuffer.packetQueue[2].sequence = TheBuffer.expectedSequence

\* C33: clear() leaves the buffer as a newly constructed one, whatever it
\* held: empty queue, expectedSequence and lastFlushTime 0, not initialized,
\* so that the next packet buffered seeds expectedSequence again.
C33_ClearResetsToNew ==
    [][Clear =>
          /\ handlers'[TrackHandler].jitterBuffer = NewJitterBuffer
          /\ \A sequence \in StreamSeqs :
                 bufferPacket(handlers'[TrackHandler].jitterBuffer,
                              JitterPacket(sequence), now).expectedSequence = sequence]_vars

\* Frames were flushed, the buffer was cleared, and the packet buffered next,
\* numbered below the frame emitted before, seeded expectedSequence anew.
C33_Witness ==
    /\ handlers[TrackHandler].emitted # <<>>
    /\ TheBuffer.lastFlushTime = 0
    /\ TheBuffer.isInitialized
    /\ Len(TheBuffer.packetQueue) = 1
    /\ TheBuffer.expectedSequence = TheBuffer.packetQueue[1].sequence
    /\ TheBuffer.expectedSequence < handlers[TrackHandler].emitted[1].sequence

\* The offset at which the payload of a buffer starts: 12, plus 4 for each
\* CSRC, plus, when the extension flag is set, 4 and 4 times the big-endian
\* 16-bit word found 2 bytes into the extension block.
PayloadOffset(bytes) ==
    LET afterCsrc == 12 + 4 * (bytes[1] % 16)
    IN  IF (bytes[1] \div 16) % 2 = 1
        THEN afterCsrc + 4 + 4 * (bytes[afterCsrc + 3] * 256 + bytes[afterCsrc + 4])
        ELSE afterCsrc

\* C34: whenever extractOpusPayload returns, it returns the bytes of the
\* buffer from the payload offset to the end of the buffer, in order; it
\* returns for every buffer that holds the fixed header and, when the
\* extension flag is set, the 4-byte extension header.
C34_PayloadStartsAfterHeaders ==
    (rtp.count > 0) =>
        LET bytes == rtp.bytes
            complete == /\ Len(bytes) >= 12
                        /\ ((bytes[1] \div 16) % 2 = 1)
                               => Len(bytes) >= 12 + 4 * (bytes[1] % 16) + 4
        IN  /\ rtp.payload.throws <=> ~complete
            /\ complete =>
                   /\ Len(rtp.payload.bytes) = Max(0, Len(bytes) - PayloadOffset(bytes))
                   /\ \A i \in 1..Len(rtp.payload.bytes) :
                          rtp.payload.bytes[i] = bytes[PayloadOffset(bytes) + i]

\* A 28-byte buffer with one CSRC and a one-word extension gave its last
\* four bytes as the payload.
C34_Witness ==
    /\ rtp.count > 0
    /\ Len(rtp.bytes) = 28
    /\ rtp.bytes[1] = 145
    /\ ~rtp.payload.throws
    /\ rtp.payload.bytes = <<24, 25, 26, 27>>

\* C35: the filename recorded in a worker's metadata is the name of the PCM
\* file the worker opened at construction and writes to.
C35_MetadataNamesOpenedFile ==
    \A h \in Workers :
        handlers[h].metadata.captured
            => handlers[h].metadata.filename = handlers[h].pcmFilename

\* C36: whenever the registry holds a session for a guild, that session is
\* recording.
C36_RegisteredSessionIsRecording ==
    \A g \in Guilds :
        activeSessions[g] # NoSession => sessions[activeSessions[g]].isRecording

\* C37: a speaking-start event that comes while the session is not
\* recording, for someone who is not in the channel, or for a participant
\* who is already in the worker map changes nothing; any other one adds
\* exactly one worker, for that participant; the worker map never holds a
\* participant twice, and a worker is only ever constructed for a
\* participant who is not in the map of a recording session.
C37_OneWorkerPerParticipant ==
    [][LET sess == sessions[TheSession]
       IN  /\ \A userId \in Speakers :
                  SpeakingEvent(userId) =>
                      IF \/ ~sess.isRecording
                         \/ userId \notin Users
                         \/ InUserStreams(sess, userId)
                      THEN UNCHANGED vars
                      ELSE /\ sessions'[TheSession].userStreams
                                = Append(sess.userStreams, userId)
                           /\ handlers'[<<TheSession, userId>>].exists
                           /\ handlers'[<<TheSession, userId>>].isActive
                           /\ \A h \in HandlerIds \ {<<TheSession, userId>>} :
                                  handlers'[h] = handlers[h]
           /\ \A i, j \in 1..Len(sessions'[TheSession].userStreams) :
                  sessions'[TheSession].userStreams[i]
                      = sessions'[TheSession].userStreams[j] => i = j
           /\ \A h \in HandlerIds :
                  (handlers'[h] # handlers[h] /\ handlers'[h] = NewHandler(h[2], now))
                      => /\ h[1] = TheSession
                         /\ sess.isRecording
                         /\ ~InUserStreams(sess, h[2])]_vars

\* The session was started, both participants got a worker, and it was
\* stopped: it holds no worker now and a speaking-start creates none.
C37_Witness ==
    /\ ~sessions[TheSession].isRecording
    /\ sessions[TheSession].stopsCalled >= 1
    /\ sessions[TheSession].userStreams = <<>>
    /\ \A u \in Users : handlers[<<TheSession, u>>].exists
    /\ handleUserStartSpeaking(sessions[TheSession], handlers, TheSession, "u1", now).handlers
           = handlers

\* The filenames of the workers in a session's map whose metadata was
\* captured, in the order of the map.
CapturedFilenames(sess) ==
    LET captured == SelectSeq(sess.userStreams,
                       LAMBDA u : handlers[<<TheSession, u>>].metadata.captured)
    IN  [i \in 1..Len(captured) |-> handlers[<<TheSession, captured[i]>>].metadata.filename]

\* C38: stop() on a session that is not recording resolves to the empty
\* list, stops no worker and does not destroy the connection; start() on a
\* recording session changes nothing; stop() on a recording session
\* resolves to the filenames of its workers whose metadata was captured.
C38_StopIdempotentStartGuarded ==
    [][LET sess == sessions[TheSession]
           after == sessions'[TheSession]
       IN  /\ (SessionStop /\ ~sess.isRecording) =>
                  /\ after = [sess EXCEPT !.stopsCalled = @ + 1, !.returned = <<>>]
                  /\ UNCHANGED <<handlers, stopCalls>>
           /\ (SessionStop /\ sess.isRecording) =>
                  /\ after.returned = CapturedFilenames(sess)
                  /\ after.destroyCalls = sess.destroyCalls + 1
                  /\ ~after.isRecording
           /\ (SessionStart /\ sess.isRecording) =>
                  /\ after = [sess EXCEPT !.startsCalled = @ + 1]
                  /\ UNCHANGED <<handlers, stopCalls>>]_vars

\* start() was called twice and stop() twice, one of two workers had its
\* metadata captured: the first stop() returned that worker's filename and
\* destroyed the connection, the second returned nothing.
C38_Witness ==
    LET sess == sessions[TheSession]
    IN  /\ sess.startsCalled = 2 /\ sess.stopsCalled = 2
        /\ ~sess.isRecording
        /\ sess.destroyCalls = 1
        /\ Len(sess.filenames) = 1
        /\ sess.returned = <<>>
        /\ \A u \in Users : handlers[<<TheSession, u>>].exists

\* C39: the queue is in non-decreasing order of sequence number after every
\* bufferPacket, whatever the order of arrival, and after every flush.
C39_QueueSortedBySequence ==
    \A i \in 1..(Len(TheBuffer.packetQueue) - 1) :
        TheBuffer.packetQueue[i].sequence <= TheBuffer.packetQueue[i + 1].sequence

\* A flush has run and left two packets in the queue, the lower-numbered
\* one at the head although it arrived after the other.
C39_Witness ==
    /\ TheBuffer.lastFlushTime > 0
    /\ Len(TheBuffer.packetQueue) = 2
    /\ TheBuffer.packetQueue[1].sequence < TheBuffer.packetQueue[2].sequence
    /\ TheBuffer.packetQueue[1].bufferedAt > TheBuffer.packetQueue[2].bufferedAt

=============================================================================
